---- MODULE Spec2Model ----
(***************************************************************************)
(* A model of porter: the migration orchestrator (MigrateUp / MigrateDown  *)
(* over an index operation and a documents operation), the origin          *)
(* resolvers (FromFile, Generate), the process-wide table toGenerate, and  *)
(* the composer (GetMap / NewFields).                                      *)
(***************************************************************************)
EXTENDS Integers, Sequences, FiniteSets, TLC

VARIABLES
    toGenerate,   \* the Field-Binding Table: field name -> fake kind
    files,        \* the file system os.ReadFile reads: path -> file state
    esIndices,    \* the search engine: names of the indices that exist
    call,         \* the call in progress or last finished
    pc,           \* position inside that call
    t,            \* temp{direction, config} of the call
    indexFn,      \* the indexFunc passed to the call
    documentsFn,  \* the documentsFunc passed to the call
    log,          \* the recorded sequence of invocations of the call
    idxRet,       \* what the index operation returned
    docRet,       \* what the documents operation returned
    originRet,    \* what the origin returned
    result,       \* the error MigrateUp / MigrateDown returned
    producers,    \* composer: the ordered sequence of producers handed in
    composed,     \* composer: which function composed them, and the map it returned
    built,        \* schema builder: the factory call last made and what it built
    declared,     \* history: the field names handed to a field factory so far
    levelCall,    \* level-based M: its config and the level of the call
    guarded,      \* guarded Migrator: its config and the argument of the call
    routines      \* goroutines at work on the table: what each one is doing

vars == <<toGenerate, files, esIndices, call, pc, t, indexFn, documentsFn,
          log, idxRet, docRet, originRet, result, producers, composed,
          built, declared, levelCall, guarded, routines>>

migVars == <<call, pc, t, indexFn, documentsFn, log, idxRet, docRet,
             originRet, result>>

composeVars == <<producers, composed>>

buildVars == <<built, declared>>

----------------------------------------------------------------------------
(* Bounds of the model *)

\* largest amount handed to Generate
MaxAmount == 2

\* longest sequence of producers handed to the composer
MaxProducers == 3

\* most options handed to one factory
MaxOptions == 2

----------------------------------------------------------------------------
(* Errors: what errors.Is can identify in the chain, and the message text *)

NilErr == [nil |-> TRUE, is |-> {}, msg |-> <<>>]

\* an error made of plain text (a string formatted into a message)
Text(s) == [nil |-> FALSE, is |-> {}, msg |-> <<s>>]

\* an error of the operating system or of the transport, identifiable as kind
Cause(kind, s) == [nil |-> FALSE, is |-> {kind}, msg |-> <<s>>]

\* a faulty Errorf: both verbs are %w and the chain of e is kept
ErrorfWrapBoth(w, e) ==
    [nil |-> FALSE, is |-> {w} \cup e.is, msg |-> <<w>> \o e.msg]

\* fmt.Errorf("%w\n%v", w, e): w stays in the chain, e is flattened to text
Errorf(w, e) ==
    [nil |-> FALSE, is |-> {w}, msg |-> <<w>> \o e.msg]

ErrorsIs(e, target) == target \in e.is

----------------------------------------------------------------------------
(* Payloads: []byte as a sequence of tokens; nil is kept apart from empty  *)

NilBytes == [isNil |-> TRUE, bytes |-> <<>>]

Bytes(s) == [isNil |-> FALSE, bytes |-> s]

\* append(docs, x...)
AppendBytes(p, s) == [isNil |-> p.isNil /\ s = <<>>, bytes |-> p.bytes \o s]

NL == [kind |-> "nl"]

RawByte(b) == [kind |-> "byte", b |-> b]

----------------------------------------------------------------------------
(* Inputs *)

FieldNames == {"age", "city"}

\* the order json.Marshal gives the keys of a map (sorted)
FieldOrder == <<"age", "city">>

\* the kinds generateFakeData has a generator for
KnownFakes ==
    {"email", "first_name", "last_name", "full_name", "username", "phone",
     "country", "city", "street", "zip", "uuid", "url", "company",
     "job_title", "color", "ipv4", "ipv6", "bool", "int", "float", "date",
     "timestamp", "paragraph"}

\* the fake kinds a caller passes: Fake is a string type, any string converts
FakeInputs == {"city", "zodiac"}

\* the strings the fake-value provider may return
ProviderValues == {"x", "y"}

Paths == {"t.json"}

Missing    == [exists |-> FALSE, readable |-> FALSE, bytes |-> <<>>]
Unreadable == [exists |-> TRUE,  readable |-> FALSE, bytes |-> <<>>]
EmptyFile  == [exists |-> TRUE,  readable |-> TRUE,  bytes |-> <<>>]
BulkFile   == [exists |-> TRUE,  readable |-> TRUE,
               bytes |-> <<RawByte(1), NL, RawByte(2), NL>>]

FileStates == {Missing, Unreadable, EmptyFile, BulkFile}

IndexNames == {"", "idx"}

\* Config{Name, Definition}; the empty config has neither
Configs ==
    {[Name |-> "",    Definition |-> "none"],
     [Name |-> "idx", Definition |-> "mappings"]}

directionUp == 1
directionDown == 2

\* no call of the level-based M is in progress
NoLevelCall == [to |-> 0, config |-> [Name |-> "", MigrationsPath |-> ""]]

\* the goroutines that may work on the table at the same time
Routines == {1, 2}

\* a goroutine that has not begun
Resting == [at |-> "idle", op |-> "none", name |-> "", kind |-> "", seen |-> {}]

NoRoutines == [g \in Routines |-> Resting]

\* no call of the guarded Migrator is in progress
NoGuarded ==
    [config |-> [Name |-> "", Definition |-> "none"], path |-> "",
     documentsOnly |-> FALSE]

NoTemp == [direction |-> 0, config |-> [Name |-> "", Definition |-> "none"]]

\* the query MigrateDocuments deletes with
MatchAllQuery == "{\"query\": {\"match_all\": {}}}"

----------------------------------------------------------------------------
(* utils.MarshalJSON on the maps Generate builds *)

SortedKeys(S) == SelectSeq(FieldOrder, LAMBDA k : k \in S)

\* a JSON object on one line: its members in key order
JSONObject(pairs) == [kind |-> "json", pairs |-> pairs]

\* MarshalJSON(f) for f : field name -> string
MarshalFields(f) ==
    LET ks == SortedKeys(DOMAIN f)
    IN  JSONObject([i \in 1..Len(ks) |-> <<ks[i], f[ks[i]]>>])

\* MarshalJSON(m) for m = {"index": {"_index": name, "_id": c}}
MarshalMeta(name, c) ==
    JSONObject(<< <<"index",
                    JSONObject(<< <<"_id", c>>, <<"_index", name>> >>)>> >>)

----------------------------------------------------------------------------
(* The Field-Binding Table *)

EmptyTable == [k \in {} |-> ""]

\* a faulty storeToGenerate that keeps the kind a name already has
storeToGenerateKeepFirst(table, name, kind) ==
    [k \in DOMAIN table \cup {name} |->
        IF k \in DOMAIN table THEN table[k] ELSE kind]

\* toGenerate[name] = t
storeToGenerate(table, name, kind) ==
    [k \in DOMAIN table \cup {name} |-> IF k = name THEN kind ELSE table[k]]

\* generateFakeData: fakeFuncs[t] is nil for an unknown t and fc() panics
generateFakeData(kind, v) ==
    IF kind \in KnownFakes
    THEN [panic |-> FALSE, data |-> v]
    ELSE [panic |-> TRUE,  data |-> ""]

----------------------------------------------------------------------------
(* Origins *)

OriginOut(docs, err, panic) == [docs |-> docs, err |-> err, panic |-> panic]

NoOriginOut == OriginOut(NilBytes, NilErr, FALSE)

\* os.ReadFile(path)
OsReadFile(fs, path) ==
    LET f == fs[path]
    IN  IF ~f.exists
        THEN [contents |-> NilBytes,
              err |-> Cause("fs.ErrNotExist", "no such file or directory")]
        ELSE IF ~f.readable
        THEN [contents |-> NilBytes,
              err |-> Cause("fs.ErrPermission", "permission denied")]
        ELSE [contents |-> Bytes(f.bytes), err |-> NilErr]

\* a faulty FromFile: the error of os.ReadFile is returned as it is
LocationFromFileBare(fs, path) ==
    LET r == OsReadFile(fs, path)
    IN  IF ~r.err.nil
        THEN OriginOut(NilBytes, r.err, FALSE)
        ELSE OriginOut(r.contents, NilErr, FALSE)

\* FromFile(path)(t)
LocationFromFile(fs, path) ==
    LET r == OsReadFile(fs, path)
    IN  IF ~r.err.nil
        THEN OriginOut(NilBytes, Errorf("ErrOriginFromFile", r.err), FALSE)
        ELSE OriginOut(r.contents, NilErr, FALSE)

\* the body of the loop over toGenerate: f[k] = generateFakeData(v)
FakeDocument(table, v) ==
    [panic |-> \E k \in DOMAIN table : generateFakeData(table[k], v[k]).panic,
     f     |-> [k \in DOMAIN table |-> generateFakeData(table[k], v[k]).data]]

RECURSIVE GenerateLoop(_, _, _, _, _, _)
\* for c := c; c <= amount; c++ { ... }; return docs, nil
GenerateLoop(c, amount, name, table, vals, docs) ==
    IF c > amount
    THEN OriginOut(docs, NilErr, FALSE)
    ELSE LET d == FakeDocument(table, vals[c])
         IN  IF d.panic
             THEN OriginOut(NilBytes, NilErr, TRUE)
             ELSE GenerateLoop(c + 1, amount, name, table, vals,
                      AppendBytes(docs,
                          <<MarshalMeta(name, c), NL, MarshalFields(d.f), NL>>))

\* Generate(amount)(t)
LocationGenerate(amount, tt, table, vals) ==
    GenerateLoop(1, amount, tt.config.Name, table, vals, NilBytes)

NilOrigin == [kind |-> "nil", path |-> "", amount |-> 0]

Origins ==
    {NilOrigin}
    \cup {[kind |-> "FromFile", path |-> p, amount |-> 0] : p \in Paths}
    \cup {[kind |-> "Generate", path |-> "", amount |-> n] : n \in 0..MaxAmount}

\* the values the provider may hand out during one call of the origin: one
\* for every document and field of a Generate
ProviderRuns(o, table) == [1..o.amount -> [DOMAIN table -> ProviderValues]]

\* origin(t) for a non-nil origin
ApplyOrigin(o, tt, fs, table, vals) ==
    IF o.kind = "FromFile"
    THEN LocationFromFile(fs, o.path)
    ELSE LocationGenerate(o.amount, tt, table, vals)

----------------------------------------------------------------------------
(* The search-engine client *)

\* what the engine answers: a transport failure, or a decoded response body
Resp(transport, error, errors, items, reasons) ==
    [transport |-> transport, error |-> error, errors |-> errors,
     items |-> items, reasons |-> reasons]

RespOK          == Resp(FALSE, "absent", FALSE, FALSE, <<>>)
RespTransport   == Resp(TRUE,  "absent", FALSE, FALSE, <<>>)
RespErrorObject == Resp(FALSE, "object", FALSE, FALSE, <<"reason">>)
RespErrorString == Resp(FALSE, "string", FALSE, FALSE, <<>>)
RespBulkItems   == Resp(FALSE, "absent", TRUE,  TRUE,  <<"r1", "r2">>)
RespBulkNoItems == Resp(FALSE, "absent", TRUE,  FALSE, <<>>)

Responses == {RespOK, RespTransport, RespErrorObject, RespErrorString,
              RespBulkItems, RespBulkNoItems}

\* the engine carried the request out
Accepted(resp) == ~resp.transport /\ resp.error = "absent" /\ ~resp.errors

TransportErr == Cause("transport", "connection refused")

\* utils.ExtractError: ok only when "error" is an object
ExtractError(resp) ==
    IF resp.error = "object"
    THEN [reason |-> resp.reasons[1], ok |-> TRUE]
    ELSE [reason |-> "", ok |-> FALSE]

RECURSIVE Join(_, _)
\* strings.Join(elems, sep), as the pieces of the joined string
Join(elems, sep) ==
    IF Len(elems) = 0 THEN <<>>
    ELSE IF Len(elems) = 1 THEN elems
    ELSE <<Head(elems), sep>> \o Join(Tail(elems), sep)

\* a faulty ClientSimple: the body of the response is not looked at
ClientSimpleTransportOnly(sentinel, resp) ==
    IF resp.transport
    THEN Errorf("ErrClientBadConnection", TransportErr)
    ELSE NilErr

\* client.CreateIndex, client.DeleteIndex, client.DeleteDocuments share this
\* shape and differ in the error they wrap
ClientSimple(sentinel, resp) ==
    IF resp.transport
    THEN Errorf("ErrClientBadConnection", TransportErr)
    ELSE LET r == ExtractError(resp)
         IN  IF r.ok THEN Errorf(sentinel, Text(r.reason)) ELSE NilErr

ClientCreateIndex(resp) == ClientSimple("ErrClientCreatingIndex", resp)

ClientDeleteIndex(resp) == ClientSimple("ErrClientDeletingIndex", resp)

ClientDeleteDocuments(resp) == ClientSimple("ErrClientDeletingDocuments", resp)

\* client.CreateDocuments
ClientCreateDocuments(resp) ==
    IF resp.transport
    THEN Errorf("ErrClientBadConnection", TransportErr)
    ELSE IF ~resp.errors THEN NilErr
    ELSE IF ~resp.items THEN NilErr
    ELSE Errorf("ErrClientCreatingDocuments",
                [nil |-> FALSE, is |-> {}, msg |-> Join(resp.reasons, " + ")])

\* one recorded invocation: what was invoked, on which index, with which
\* query, and whether the engine carried it out (resp matters for the calls
\* of the client alone)
Ev(ev, name, query, accepted) ==
    [ev |-> ev, name |-> name, query |-> query, accepted |-> accepted,
     resp |-> RespOK]

\* one recorded call of the client, with what the engine answered
EvClient(ev, name, query, resp) ==
    [ev |-> ev, name |-> name, query |-> query, accepted |-> Accepted(resp),
     resp |-> resp]

ClientEvents == {"CreateIndex", "CreateDocuments", "DeleteIndex", "DeleteDocuments"}

----------------------------------------------------------------------------
(* The index and documents operations *)

\* what an operation did: its error, whether it panicked, the invocations it
\* made, the indices that exist afterwards, and what its origin returned
OpOut(err, panic, events, es, origin) ==
    [err |-> err, panic |-> panic, events |-> events, es |-> es,
     origin |-> origin]

NoIndex == [kind |-> "NoIndex", fails |-> FALSE]

IndexFuncs ==
    {NoIndex, [kind |-> "MigrateIndex", fails |-> FALSE]}
    \cup {[kind |-> "Custom", fails |-> b] : b \in BOOLEAN}

NoDocuments == [kind |-> "NoDocuments", fails |-> FALSE, origin |-> NilOrigin]

DocumentsFuncs ==
    {NoDocuments}
    \cup {[kind |-> "MigrateDocuments", fails |-> FALSE, origin |-> o] : o \in Origins}
    \cup {[kind |-> "Custom", fails |-> b, origin |-> NilOrigin] : b \in BOOLEAN}

\* MigrateIndex, t.direction == directionUp: CreateIndex
MigrateIndexUp(tt, es, resp) ==
    LET err == ClientCreateIndex(resp)
    IN  OpOut(IF ~err.nil THEN Errorf("ErrMigratorMigratingIndex", err) ELSE NilErr,
              FALSE,
              <<EvClient("CreateIndex", tt.config.Name, "", resp)>>,
              IF Accepted(resp) /\ tt.config.Name # ""
              THEN es \cup {tt.config.Name} ELSE es,
              NoOriginOut)

\* MigrateIndex, else: DeleteIndex
MigrateIndexDown(tt, es, resp) ==
    LET err == ClientDeleteIndex(resp)
    IN  OpOut(IF ~err.nil THEN Errorf("ErrMigratorMigratingIndex", err) ELSE NilErr,
              FALSE,
              <<EvClient("DeleteIndex", tt.config.Name, "", resp)>>,
              IF Accepted(resp) THEN es \ {tt.config.Name} ELSE es,
              NoOriginOut)

\* a faulty MigrateIndex: the direction test is inverted
MigrateIndexInverted(tt, es, resp) ==
    IF tt.direction = directionDown
    THEN MigrateIndexUp(tt, es, resp)
    ELSE MigrateIndexDown(tt, es, resp)

\* index.MigrateIndex()(t)
MigrateIndex(tt, es, resp) ==
    IF tt.direction = directionUp
    THEN MigrateIndexUp(tt, es, resp)
    ELSE MigrateIndexDown(tt, es, resp)

\* MigrateDocuments, t.direction == directionUp: origin(t), CreateDocuments
MigrateDocumentsUp(origin, tt, es, fs, table, vals, resp) ==
    IF origin.kind = "nil"
    THEN OpOut(NilErr, TRUE, <<>>, es, NoOriginOut)
    ELSE LET o == ApplyOrigin(origin, tt, fs, table, vals)
             called == <<Ev("origin", origin.kind, "", FALSE)>>
         IN  IF o.panic
             THEN OpOut(NilErr, TRUE, called, es, o)
             ELSE IF ~o.err.nil
             THEN OpOut(Errorf("ErrMigratorDocuments", o.err), FALSE, called, es, o)
             ELSE LET err == ClientCreateDocuments(resp)
                  IN  OpOut(IF ~err.nil
                            THEN Errorf("ErrMigratorDocuments", err)
                            ELSE NilErr,
                            FALSE,
                            called \o <<EvClient("CreateDocuments", tt.config.Name, "",
                                           resp)>>,
                            es, o)

\* MigrateDocuments, else: DeleteDocuments with the match-all query
MigrateDocumentsDown(tt, es, resp) ==
    LET err == ClientDeleteDocuments(resp)
    IN  OpOut(IF ~err.nil THEN Errorf("ErrMigratorDocuments", err) ELSE NilErr,
              FALSE,
              <<EvClient("DeleteDocuments", tt.config.Name, MatchAllQuery, resp)>>,
              es, NoOriginOut)

\* a faulty MigrateDocuments: a failed Up is rolled back by deleting the index
MigrateDocumentsRollback(origin, tt, es, fs, table, vals, resp) ==
    IF tt.direction = directionUp
    THEN LET o == MigrateDocumentsUp(origin, tt, es, fs, table, vals, resp)
         IN  IF o.panic \/ o.err.nil THEN o
             ELSE [o EXCEPT !.events = @ \o <<Ev("DeleteIndex", tt.config.Name, "", TRUE)>>,
                            !.es = es \ {tt.config.Name}]
    ELSE MigrateDocumentsDown(tt, es, resp)

\* a faulty MigrateDocuments: the origin is resolved before the direction is
\* looked at
MigrateDocumentsOriginFirst(origin, tt, es, fs, table, vals, resp) ==
    IF tt.direction = directionUp
    THEN MigrateDocumentsUp(origin, tt, es, fs, table, vals, resp)
    ELSE IF origin.kind = "nil"
    THEN OpOut(NilErr, TRUE, <<>>, es, NoOriginOut)
    ELSE LET o == MigrateDocumentsDown(tt, es, resp)
         IN  [o EXCEPT !.events = <<Ev("origin", origin.kind, "", FALSE)>> \o @]

\* documents.MigrateDocuments(origin)(t)
MigrateDocuments(origin, tt, es, fs, table, vals, resp) ==
    IF tt.direction = directionUp
    THEN MigrateDocumentsUp(origin, tt, es, fs, table, vals, resp)
    ELSE MigrateDocumentsDown(tt, es, resp)

\* a caller-supplied operation: it returns nil or an error, and calls nothing
CustomOp(fails, es) ==
    OpOut(IF fails THEN Text("custom operation failed") ELSE NilErr,
          FALSE, <<>>, es, NoOriginOut)

\* a faulty NoIndex: it migrates the index all the same
RunIndexNoopMigrates(fn, tt, es, resp) ==
    IF fn.kind = "Custom" THEN CustomOp(fn.fails, es)
    ELSE MigrateIndex(tt, es, resp)

\* index(t), for the indexFunc fn: NoIndex(), MigrateIndex() or the caller's own
RunIndex(fn, tt, es, resp) ==
    IF fn.kind = "NoIndex" THEN OpOut(NilErr, FALSE, <<>>, es, NoOriginOut)
    ELSE IF fn.kind = "MigrateIndex" THEN MigrateIndex(tt, es, resp)
    ELSE CustomOp(fn.fails, es)

\* documents(t), for the documentsFunc fn: NoDocuments(), MigrateDocuments(origin)
\* or the caller's own
RunDocuments(fn, tt, es, fs, table, vals, resp) ==
    IF fn.kind = "NoDocuments" THEN OpOut(NilErr, FALSE, <<>>, es, NoOriginOut)
    ELSE IF fn.kind = "MigrateDocuments"
    THEN MigrateDocuments(fn.origin, tt, es, fs, table, vals, resp)
    ELSE CustomOp(fn.fails, es)

----------------------------------------------------------------------------
(* The composer *)

Keys == {"store", "type"}

Values == {"a", "b"}

\* the maps a producer may return: any keys, any values
Fragments == UNION {[S -> Values] : S \in SUBSET Keys}

EmptyMap == [k \in {} |-> "a"]

NilProducer == [nil |-> TRUE, m |-> EmptyMap]

\* a producer is a nullary function; it is modelled by the map it returns
Producer(m) == [nil |-> FALSE, m |-> m]

ProducerInputs == {NilProducer} \cup {Producer(m) : m \in Fragments}

\* a faulty Merge: a key that is already present keeps its value
MergeKeepFirst(acc, m) ==
    [k \in DOMAIN acc \cup DOMAIN m |-> IF k \in DOMAIN acc THEN acc[k] ELSE m[k]]

\* for k, v := range fn() { result[k] = v }
Merge(acc, m) ==
    [k \in DOMAIN acc \cup DOMAIN m |-> IF k \in DOMAIN m THEN m[k] ELSE acc[k]]

RECURSIVE GetMapLoop(_, _, _)
\* for _, fn := range funcs { if fn == nil { continue }; ... }
GetMapLoop(funcs, i, acc) ==
    IF i > Len(funcs) THEN acc
    ELSE IF funcs[i].nil THEN GetMapLoop(funcs, i + 1, acc)
    ELSE GetMapLoop(funcs, i + 1, Merge(acc, funcs[i].m))

\* utils.GetMap(funcs)
GetMap(funcs) == GetMapLoop(funcs, 1, EmptyMap)

RECURSIVE NewFieldsLoop(_, _, _)
\* for _, fn := range fields { if fn == nil { continue }; ... }
NewFieldsLoop(fields, i, r) ==
    IF i > Len(fields) THEN r
    ELSE IF fields[i].nil THEN NewFieldsLoop(fields, i + 1, r)
    ELSE NewFieldsLoop(fields, i + 1, Merge(r, fields[i].m))

\* mappings.NewFields(fields...)
NewFields(fields) == NewFieldsLoop(fields, 1, EmptyMap)

NotComposed == [by |-> "none", result |-> EmptyMap]

\* no factory call has been made
NotBuilt == [by |-> "none", kind |-> "", name |-> "", arg |-> "",
             options |-> <<>>, body |-> EmptyMap]

----------------------------------------------------------------------------
(* The type registry: the factories of fields, analyzers and normalizers *)

\* the wire names of the thirteen field kinds
FieldKinds == {"keyword", "text", "integer", "long", "float", "double",
               "short", "byte", "half_float", "scaled_float", "date",
               "boolean", "ip"}

\* the analyzers whose factory takes options, and the ones that take none
AnalyzerKindsWithOptions == {"standard", "stop", "pattern", "fingerprint",
                             "custom"}

AnalyzerKindsPlain == {"simple", "whitespace", "keyword"}

\* AnalyzerLanguageLanguage: the languages the library names
Languages == {"arabic", "armenian", "basque", "bengali", "brazilian",
              "bulgarian", "catalan", "cjk", "czech", "danish", "dutch",
              "english", "estonian", "finnish", "french", "galician",
              "german", "greek", "hindi", "hungarian", "indonesian", "irish",
              "italian", "latvian", "lithuanian", "norwegian", "persian",
              "portuguese", "romanian", "russian", "serbian", "sorani",
              "spanish", "swedish", "turkish", "thai"}

\* the keys of the map stemExclusionAllow
stemExclusionAllow == {"arabic", "armenian", "basque", "bengali", "bulgarian",
                       "catalan", "czech", "dutch", "english", "finnish",
                       "french", "galician", "german", "hindi", "hungarian",
                       "indonesian", "irish", "italian", "latvian",
                       "lithuanian", "norwegian", "portuguese", "romanian",
                       "russian", "serbian", "sorani", "spanish", "swedish",
                       "turkish"}

\* the names given to analyzers and normalizers
NodeNames == {"an"}

\* the values handed to the With...() helpers
OptionValues == {"a", "b"}

\* a With...() helper: a producer of the one key of the helper
With(key, value) == Producer([k \in {key} |-> value])

\* AnalyzerLanguage.WithStemExclusion(value): the language is not looked at
WithStemExclusion(value) == With("stem_exclusion", value)

\* the helpers of a family of kinds (two of them each), and no option (nil)
OptionKeys(family) ==
    CASE family = "Field" -> {"index", "store"}
      [] family = "Analyzer" -> {"stopwords", "stopwords_path"}
      [] family = "AnalyzerCustom" -> {"char_filter", "filter"}
      [] family = "AnalyzerLanguage" -> {"stopwords", "stem_exclusion"}
      [] family = "Normalizer" -> {"char_filter", "filter"}

\* the custom analyzer has helpers of its own
AnalyzerFamily(wire) == IF wire = "custom" THEN "AnalyzerCustom" ELSE "Analyzer"

\* an option written by the caller (the option types are exported func
\* types): a producer that carries a "type" key of its own
OwnType == With("type", "own")

Options(family) ==
    {NilProducer, OwnType}
        \cup {With(k, v) : k \in OptionKeys(family), v \in OptionValues}

\* a faulty SetType: a "type" key the options left in r is kept
SetTypeKeepsExisting(r, wire) == Merge([k \in {"type"} |-> wire], r)

\* r["type"] = <wire name>
SetType(r, wire) == Merge(r, [k \in {"type"} |-> wire])

RECURSIVE PropertiesLoop(_, _, _)
\* for _, fn := range properties { if fn == nil { continue }
\*     for k, v := range fn() { r[k] = v } }
PropertiesLoop(properties, i, r) ==
    IF i > Len(properties) THEN r
    ELSE IF properties[i].nil THEN PropertiesLoop(properties, i + 1, r)
    ELSE PropertiesLoop(properties, i + 1, Merge(r, properties[i].m))

\* a faulty Body: r["type"] is never set
BodyWithoutType(wire, properties) == PropertiesLoop(properties, 1, EmptyMap)

\* the body r of a field factory, of an analyzer factory with options and of
\* the normalizer factory
Body(wire, properties) == SetType(PropertiesLoop(properties, 1, EmptyMap), wire)

\* the body r of an analyzer factory without options
PlainBody(wire) == SetType(EmptyMap, wire)

\* a faulty StemFilter: the allow-list is not consulted
StemFilterKeepsAll(language, m) == m

\* if k == "stem_exclusion" { _, ok := stemExclusionAllow[language]
\*     if !ok { continue } }: the pairs of a fragment that are kept
StemFilter(language, m) ==
    LET kept == {k \in DOMAIN m :
                    ~(k = "stem_exclusion" /\ language \notin stemExclusionAllow)}
    IN  [k \in kept |-> m[k]]

RECURSIVE LanguageLoop(_, _, _, _)
\* the loop over properties of newAnalyzerLanguage
LanguageLoop(language, properties, i, r) ==
    IF i > Len(properties) THEN r
    ELSE IF properties[i].nil THEN LanguageLoop(language, properties, i + 1, r)
    ELSE LanguageLoop(language, properties, i + 1,
                      Merge(r, StemFilter(language, properties[i].m)))

\* the body r of newAnalyzerLanguage: its type is the language
LanguageBody(language, properties) ==
    SetType(LanguageLoop(language, properties, 1, EmptyMap), language)

----------------------------------------------------------------------------
(* utils.MarshalJSON(config.Definition): encoding/json with omitempty tags *)

\* a map[string]interface{}: nil, made but empty, or with entries
MapStates == {"nil", "empty", "filled"}

\* the values of NumberOfShards and NumberOfReplicas; 0 is the unset int
Counts == {0, 1}

NilAnalysis == [nil |-> TRUE, Analyzer |-> "nil", Normalizer |-> "nil"]

\* *AnalysisConfig
AnalysisConfigs ==
    {NilAnalysis} \cup
    {[nil |-> FALSE, Analyzer |-> a, Normalizer |-> n] :
        a \in MapStates, n \in MapStates}

NilSettings == [nil |-> TRUE, NumberOfShards |-> 0, NumberOfReplicas |-> 0,
                Analysis |-> NilAnalysis]

\* *SettingsConfig
SettingsConfigs ==
    {NilSettings} \cup
    {[nil |-> FALSE, NumberOfShards |-> sh, NumberOfReplicas |-> re,
      Analysis |-> a] : sh \in Counts, re \in Counts, a \in AnalysisConfigs}

NilMappings == [nil |-> TRUE, Properties |-> "nil"]

\* *MappingsConfig
MappingsConfigs ==
    {NilMappings} \cup {[nil |-> FALSE, Properties |-> m] : m \in MapStates}

\* DefinitionConfig
Definitions ==
    {[Settings |-> st, Mappings |-> mp] :
        st \in SettingsConfigs, mp \in MappingsConfigs}

JSONNull == [kind |-> "null"]

JSONNumber(n) == [kind |-> "number", n |-> n]

\* a map as json.Marshal writes it: null for a nil map, {} for an empty one
JSONMap(m) ==
    IF m = "nil" THEN JSONNull
    ELSE IF m = "empty" THEN JSONObject(<<>>)
    ELSE [kind |-> "map", m |-> m]

\* a faulty OmitEmpty: the tag is missing and the member is always written
OmitNothing(key, empty, value) == << <<key, value>> >>

\* `json:"<key>,omitempty"`: the member is left out when the field is empty
\* (a nil pointer, a zero int, a map of length zero)
OmitEmpty(key, empty, value) == IF empty THEN <<>> ELSE << <<key, value>> >>

MarshalAnalysis(a) ==
    JSONObject(
        OmitEmpty("analyzer", a.Analyzer \in {"nil", "empty"}, JSONMap(a.Analyzer))
     \o OmitEmpty("normalizer", a.Normalizer \in {"nil", "empty"},
                  JSONMap(a.Normalizer)))

MarshalSettings(st) ==
    JSONObject(
        OmitEmpty("number_of_shards", st.NumberOfShards = 0,
                  JSONNumber(st.NumberOfShards))
     \o OmitEmpty("number_of_replicas", st.NumberOfReplicas = 0,
                  JSONNumber(st.NumberOfReplicas))
     \o OmitEmpty("analysis", st.Analysis.nil,
                  IF st.Analysis.nil THEN JSONNull
                  ELSE MarshalAnalysis(st.Analysis)))

MarshalMappings(mp) ==
    JSONObject(
        OmitEmpty("properties", mp.Properties \in {"nil", "empty"},
                  JSONMap(mp.Properties)))

\* utils.MarshalJSON(t.config.Definition)
MarshalDefinition(d) ==
    JSONObject(
        OmitEmpty("settings", d.Settings.nil,
                  IF d.Settings.nil THEN JSONNull
                  ELSE MarshalSettings(d.Settings))
     \o OmitEmpty("mappings", d.Mappings.nil,
                  IF d.Mappings.nil THEN JSONNull
                  ELSE MarshalMappings(d.Mappings)))

\* what a factory call has built
Built(by, kind, name, arg, options, body) ==
    [by |-> by, kind |-> kind, name |-> name, arg |-> arg,
     options |-> options, body |-> body]

----------------------------------------------------------------------------
(* The state machine of the orchestrator *)

InitMigration ==
    /\ call = "none"
    /\ pc = "idle"
    /\ t = NoTemp
    /\ indexFn = NoIndex
    /\ documentsFn = NoDocuments
    /\ log = <<>>
    /\ idxRet = "none"
    /\ docRet = "none"
    /\ originRet = NoOriginOut
    /\ result = NilErr

\* every table the field factories can have built: any names, any kinds
Tables == UNION {[S -> FakeInputs] : S \in SUBSET FieldNames}

Init ==
    /\ toGenerate \in Tables
    /\ files \in [Paths -> FileStates]
    /\ esIndices \in SUBSET (IndexNames \ {""})
    /\ InitMigration
    /\ producers = <<>>
    /\ composed = NotComposed
    /\ built = NotBuilt
    /\ declared = DOMAIN toGenerate
    /\ levelCall = NoLevelCall
    /\ guarded = NoGuarded
    /\ routines = NoRoutines

\* a faulty Begin: every call starts by clearing the table
BeginClearsTable(name, direction, config, ifn, dfn, at, oret) ==
    /\ pc = "idle"
    /\ pc' = at
    /\ call' = name
    /\ t' = [direction |-> direction, config |-> config]
    /\ indexFn' = ifn
    /\ documentsFn' = dfn
    /\ log' = <<>>
    /\ idxRet' = "none"
    /\ docRet' = "none"
    /\ originRet' = oret
    /\ result' = NilErr
    /\ toGenerate' = EmptyTable
    /\ UNCHANGED <<files, esIndices, composeVars, buildVars, levelCall, guarded, routines>>

\* t := temp{direction: ..., config: config, client: m.Client}
Begin(name, direction, config, ifn, dfn, at, oret) ==
    /\ pc = "idle"
    /\ pc' = at
    /\ call' = name
    /\ t' = [direction |-> direction, config |-> config]
    /\ indexFn' = ifn
    /\ documentsFn' = dfn
    /\ log' = <<>>
    /\ idxRet' = "none"
    /\ docRet' = "none"
    /\ originRet' = oret
    /\ result' = NilErr
    /\ UNCHANGED <<toGenerate, files, esIndices, composeVars, buildVars, levelCall, guarded, routines>>

\* the error MigrateUp / MigrateDown returns for the error of an operation
Returned(err, wrap) == IF err.nil THEN NilErr ELSE Errorf(wrap, err)

\* a faulty AfterIndex: the error is recorded but the return is missing
AfterIndexKeepsGoing(err, next) == next

\* err := index(t); if err != nil { return ... }: where the call goes on
AfterIndex(err, next) == IF err.nil THEN next ELSE "done"

\* a faulty AfterDocuments: the error is recorded but the return is missing
AfterDocumentsKeepsGoing(err, next) == next

\* err = documents(t); if err != nil { return ... }: where the call goes on
AfterDocuments(err, next) == IF err.nil THEN next ELSE "done"

\* err := index(t), and what the caller does with err
IndexStep(name, wrap, next) ==
    /\ call = name
    /\ pc = "index"
    /\ \E resp \in Responses :
          LET o == RunIndex(indexFn, t, esIndices, resp)
          IN  /\ log' = log \o <<Ev("index", indexFn.kind, "", FALSE)>> \o o.events
              /\ esIndices' = o.es
              /\ idxRet' = IF o.err.nil THEN "ok" ELSE "err"
              /\ result' = Returned(o.err, wrap)
              /\ pc' = AfterIndex(o.err, next)
    /\ UNCHANGED <<toGenerate, files, call, t, indexFn, documentsFn, docRet,
                   originRet, composeVars, buildVars, levelCall, guarded, routines>>

\* err := documents(t), and what the caller does with err
DocumentsStep(name, wrap, next) ==
    /\ call = name
    /\ pc = "documents"
    /\ \E resp \in Responses,
          vals \in ProviderRuns(documentsFn.origin, toGenerate) :
          LET o == RunDocuments(documentsFn, t, esIndices, files, toGenerate,
                                vals, resp)
          IN  /\ log' = log \o <<Ev("documents", documentsFn.kind, "", FALSE)>>
                              \o o.events
              /\ esIndices' = o.es
              /\ originRet' = o.origin
              /\ docRet' = IF o.panic THEN "panic"
                           ELSE IF o.err.nil THEN "ok" ELSE "err"
              /\ result' = IF o.panic THEN NilErr ELSE Returned(o.err, wrap)
              /\ pc' = IF o.panic THEN "panicked" ELSE AfterDocuments(o.err, next)
    /\ UNCHANGED <<toGenerate, files, call, t, indexFn, documentsFn, idxRet,
                   composeVars, buildVars, levelCall, guarded, routines>>

\* M.MigrateUp(config, index, documents): entry
StartMigrateUp ==
    /\ pc = "idle"
    /\ \E config \in Configs, ifn \in IndexFuncs, dfn \in DocumentsFuncs :
           Begin("MigrateUp", directionUp, config, ifn, dfn, "index", NoOriginOut)

\* M.MigrateUp: err := index(t)
MigrateUpIndex == IndexStep("MigrateUp", "ErrPorterMigratingUp", "documents")

\* M.MigrateUp: err = documents(t); return nil
MigrateUpDocuments == DocumentsStep("MigrateUp", "ErrPorterMigratingUp", "done")

\* M.MigrateDown(config, documents, index): entry
StartMigrateDown ==
    /\ pc = "idle"
    /\ \E config \in Configs, ifn \in IndexFuncs, dfn \in DocumentsFuncs :
           Begin("MigrateDown", directionDown, config, ifn, dfn, "documents",
                 NoOriginOut)

\* M.MigrateDown: err := documents(t)
MigrateDownDocuments ==
    DocumentsStep("MigrateDown", "ErrPorterMigratingDown", "index")

\* M.MigrateDown: err = index(t); return nil
MigrateDownIndex == IndexStep("MigrateDown", "ErrPorterMigratingDown", "done")

\* fc := FromFile(path) or Generate(amount); fc(t), called on its own
CallOrigin ==
    /\ pc = "idle"
    /\ \E config \in Configs, o \in Origins \ {NilOrigin} :
         \E vals \in ProviderRuns(o, toGenerate) :
           LET tt == [direction |-> directionUp, config |-> config]
               r == ApplyOrigin(o, tt, files, toGenerate, vals)
           IN  Begin("Origin", directionUp, config, NoIndex,
                     [kind |-> "Origin", fails |-> FALSE, origin |-> o],
                     IF r.panic THEN "panicked" ELSE "done", r)

\* the call has returned to its caller, which goes on
Return ==
    /\ pc = "done"
    /\ pc' = "idle"
    /\ call' = "none"
    /\ t' = NoTemp
    /\ indexFn' = NoIndex
    /\ documentsFn' = NoDocuments
    /\ log' = <<>>
    /\ idxRet' = "none"
    /\ docRet' = "none"
    /\ originRet' = NoOriginOut
    /\ result' = NilErr
    /\ built' = NotBuilt
    /\ levelCall' = NoLevelCall
    /\ guarded' = NoGuarded
    /\ UNCHANGED routines
    /\ UNCHANGED <<toGenerate, files, esIndices, composeVars, declared>>

Next ==
    \/ StartMigrateUp
    \/ MigrateUpIndex
    \/ MigrateUpDocuments
    \/ StartMigrateDown
    \/ MigrateDownDocuments
    \/ MigrateDownIndex
    \/ CallOrigin
    \/ Return

Spec == Init /\ [][Next]_vars

----------------------------------------------------------------------------
(* The older copy of the orchestrator that the repository also holds: the   *)
(* same control flow, errors wrapped in another way                          *)

\* fmt.Errorf("%s... @ \n\n %v", op, err): text only, nothing is wrapped
ErrorfText(op, e) == [nil |-> FALSE, is |-> {}, msg |-> <<op>> \o e.msg]

\* client.CreateIndex, DeleteIndex, DeleteDocuments of the older copy:
\* return err; return fmt.Errorf(r)
LegacyClientSimple(resp) ==
    IF resp.transport THEN TransportErr
    ELSE LET r == ExtractError(resp)
         IN  IF r.ok THEN Text(r.reason) ELSE NilErr

\* client.CreateDocuments of the older copy
LegacyClientCreateDocuments(resp) ==
    IF resp.transport THEN TransportErr
    ELSE IF ~resp.errors THEN NilErr
    ELSE IF ~resp.items THEN NilErr
    ELSE [nil |-> FALSE, is |-> {}, msg |-> Join(resp.reasons, ", ")]

\* index.MigrateIndex()(t) of the older copy
LegacyMigrateIndex(tt, es, resp) ==
    LET err == LegacyClientSimple(resp)
    IN  IF tt.direction = directionUp
        THEN OpOut(IF ~err.nil
                   THEN ErrorfText("> MigrateIndex().CreateIndex() @", err)
                   ELSE NilErr,
                   FALSE,
                   <<EvClient("CreateIndex", tt.config.Name, "", resp)>>,
                   IF Accepted(resp) /\ tt.config.Name # ""
                   THEN es \cup {tt.config.Name} ELSE es,
                   NoOriginOut)
        ELSE OpOut(IF ~err.nil
                   THEN ErrorfText("< MigrateIndex().DeleteIndex() @", err)
                   ELSE NilErr,
                   FALSE,
                   <<EvClient("DeleteIndex", tt.config.Name, "", resp)>>,
                   IF Accepted(resp) THEN es \ {tt.config.Name} ELSE es,
                   NoOriginOut)

\* documents.MigrateDocuments(origin)(t) of the older copy; the sentinel of
\* FromFile is the one it tests with errors.Is
LegacyMigrateDocuments(origin, tt, es, fs, table, vals, resp) ==
    IF tt.direction # directionUp
    THEN LET err == LegacyClientSimple(resp)
         IN  OpOut(IF ~err.nil
                   THEN ErrorfText("< MigrateDocuments().DeleteDocuments() @", err)
                   ELSE NilErr,
                   FALSE,
                   <<EvClient("DeleteDocuments", tt.config.Name, MatchAllQuery,
                        resp)>>,
                   es, NoOriginOut)
    ELSE IF origin.kind = "nil"
    THEN OpOut(NilErr, TRUE, <<>>, es, NoOriginOut)
    ELSE LET o == ApplyOrigin(origin, tt, fs, table, vals)
             called == <<Ev("origin", origin.kind, "", FALSE)>>
         IN  IF o.panic
             THEN OpOut(NilErr, TRUE, called, es, o)
             ELSE IF ~o.err.nil
             THEN OpOut(IF ErrorsIs(o.err, "ErrOriginFromFile")
                        THEN ErrorfText("> MigrateDocuments().FromFile() @", o.err)
                        ELSE ErrorfText("> MigrateDocuments() @", o.err),
                        FALSE, called, es, o)
             ELSE LET err == LegacyClientCreateDocuments(resp)
                  IN  OpOut(IF ~err.nil
                            THEN ErrorfText("> MigrateDocuments().CreateDocuments() @",
                                            err)
                            ELSE NilErr,
                            FALSE,
                            called \o <<EvClient("CreateDocuments", tt.config.Name, "",
                                           resp)>>,
                            es, o)

\* what MigrateUp of the older copy returns: the error under the error of the
\* phase; MigrateDown returns err as it is (wrap = "")
LegacyReturned(err, wrap) ==
    IF err.nil THEN NilErr
    ELSE IF wrap = "" THEN err
    ELSE Errorf(wrap, err)

LegacyRunIndex(fn, tt, es, resp) ==
    IF fn.kind = "NoIndex" THEN OpOut(NilErr, FALSE, <<>>, es, NoOriginOut)
    ELSE LegacyMigrateIndex(tt, es, resp)

LegacyRunDocuments(fn, tt, es, fs, table, vals, resp) ==
    IF fn.kind = "NoDocuments" THEN OpOut(NilErr, FALSE, <<>>, es, NoOriginOut)
    ELSE LegacyMigrateDocuments(fn.origin, tt, es, fs, table, vals, resp)

LegacyIndexFuncs == {NoIndex, [kind |-> "MigrateIndex", fails |-> FALSE]}

LegacyDocumentsFuncs ==
    {NoDocuments}
    \cup {[kind |-> "MigrateDocuments", fails |-> FALSE, origin |-> o] : o \in Origins}

\* err := index(t), and what the caller does with err
LegacyIndexStep(name, wrap, next) ==
    /\ call = name
    /\ pc = "index"
    /\ \E resp \in Responses :
          LET o == LegacyRunIndex(indexFn, t, esIndices, resp)
          IN  /\ log' = log \o <<Ev("index", indexFn.kind, "", FALSE)>> \o o.events
              /\ esIndices' = o.es
              /\ idxRet' = IF o.err.nil THEN "ok" ELSE "err"
              /\ result' = LegacyReturned(o.err, wrap)
              /\ pc' = AfterIndex(o.err, next)
    /\ UNCHANGED <<toGenerate, files, call, t, indexFn, documentsFn, docRet,
                   originRet, composeVars, buildVars, levelCall, guarded, routines>>

\* err = documents(t), and what the caller does with err
LegacyDocumentsStep(name, wrap, next) ==
    /\ call = name
    /\ pc = "documents"
    /\ \E resp \in Responses,
          vals \in ProviderRuns(documentsFn.origin, toGenerate) :
          LET o == LegacyRunDocuments(documentsFn, t, esIndices, files,
                                      toGenerate, vals, resp)
          IN  /\ log' = log \o <<Ev("documents", documentsFn.kind, "", FALSE)>>
                              \o o.events
              /\ esIndices' = o.es
              /\ originRet' = o.origin
              /\ docRet' = IF o.panic THEN "panic"
                           ELSE IF o.err.nil THEN "ok" ELSE "err"
              /\ result' = IF o.panic THEN NilErr
                           ELSE LegacyReturned(o.err, wrap)
              /\ pc' = IF o.panic THEN "panicked" ELSE AfterDocuments(o.err, next)
    /\ UNCHANGED <<toGenerate, files, call, t, indexFn, documentsFn, idxRet,
                   composeVars, buildVars, levelCall, guarded, routines>>

LegacyStartMigrateUp ==
    /\ pc = "idle"
    /\ \E config \in Configs, ifn \in LegacyIndexFuncs,
          dfn \in LegacyDocumentsFuncs :
          Begin("LegacyMigrateUp", directionUp, config, ifn, dfn, "index",
                NoOriginOut)

LegacyMigrateUpIndex ==
    LegacyIndexStep("LegacyMigrateUp", "ErrMigrateIndex", "documents")

LegacyMigrateUpDocuments ==
    LegacyDocumentsStep("LegacyMigrateUp", "ErrMigrateDocuments", "done")

LegacyStartMigrateDown ==
    /\ pc = "idle"
    /\ \E config \in Configs, ifn \in LegacyIndexFuncs,
          dfn \in LegacyDocumentsFuncs :
          Begin("LegacyMigrateDown", directionDown, config, ifn, dfn,
                "documents", NoOriginOut)

LegacyMigrateDownDocuments == LegacyDocumentsStep("LegacyMigrateDown", "", "index")

LegacyMigrateDownIndex == LegacyIndexStep("LegacyMigrateDown", "", "done")

\* the program built with either copy of the orchestrator
InitLegacy ==
    /\ toGenerate \in {EmptyTable, [k \in {"city"} |-> "city"]}
    /\ files \in [Paths -> FileStates]
    /\ esIndices \in SUBSET (IndexNames \ {""})
    /\ InitMigration
    /\ producers = <<>>
    /\ composed = NotComposed
    /\ built = NotBuilt
    /\ declared = DOMAIN toGenerate
    /\ levelCall = NoLevelCall
    /\ guarded = NoGuarded
    /\ routines = NoRoutines

NextLegacy ==
    \/ LegacyStartMigrateUp
    \/ LegacyMigrateUpIndex
    \/ LegacyMigrateUpDocuments
    \/ LegacyStartMigrateDown
    \/ LegacyMigrateDownDocuments
    \/ LegacyMigrateDownIndex
    \/ Next

SpecLegacy == InitLegacy /\ [][NextLegacy]_vars

----------------------------------------------------------------------------
(* The composer on its own: the producers are the input, drawn at the start *)

RECURSIVE SeqsUpTo(_, _)
\* the sequences over S of length at most n
SeqsUpTo(S, n) ==
    IF n = 0 THEN {<<>>}
    ELSE LET shorter == SeqsUpTo(S, n - 1)
         IN  shorter \cup {Append(q, x) : q \in shorter, x \in S}

InitCompose ==
    /\ toGenerate = EmptyTable
    /\ files = [p \in Paths |-> Missing]
    /\ esIndices = {}
    /\ InitMigration
    /\ producers \in SeqsUpTo(ProducerInputs, MaxProducers)
    /\ composed = NotComposed
    /\ built = NotBuilt
    /\ declared = {}
    /\ levelCall = NoLevelCall
    /\ guarded = NoGuarded
    /\ routines = NoRoutines

\* utils.GetMap(funcs)
CallGetMap ==
    /\ composed.by = "none"
    /\ composed' = [by |-> "GetMap", result |-> GetMap(producers)]
    /\ UNCHANGED <<toGenerate, files, esIndices, migVars, producers, buildVars, levelCall, guarded, routines>>

\* m.NewFields(fields...)
CallNewFields ==
    /\ composed.by = "none"
    /\ composed' = [by |-> "NewFields", result |-> NewFields(producers)]
    /\ UNCHANGED <<toGenerate, files, esIndices, migVars, producers, buildVars, levelCall, guarded, routines>>

\* analysis.NewAnalyzer(analyzer) and analysis.NewNormalizer(normalizer):
\* for k, v := range analyzer() { r[k] = v }, and analyzer() of a nil
\* function crashes
NewContainer(producer) ==
    IF producer.nil
    THEN [panic |-> TRUE, r |-> EmptyMap]
    ELSE [panic |-> FALSE, r |-> Merge(EmptyMap, producer.m)]

\* a call of one of the two with the one producer handed in
CallContainer(by) ==
    /\ composed.by = "none"
    /\ Len(producers) = 1
    /\ LET o == NewContainer(producers[1])
       IN  /\ composed' = [by |-> by, result |-> o.r]
           /\ pc' = IF o.panic THEN "panicked" ELSE pc
    /\ UNCHANGED <<toGenerate, files, esIndices, call, t, indexFn,
                   documentsFn, log, idxRet, docRet, originRet, result,
                   producers, buildVars, levelCall, guarded, routines>>

\* a.NewAnalyzer(analyzer)
CallNewAnalyzer == CallContainer("NewAnalyzer")

\* a.NewNormalizer(normalizer)
CallNewNormalizer == CallContainer("NewNormalizer")

NextCompose ==
    \/ CallGetMap
    \/ CallNewFields
    \/ CallNewAnalyzer
    \/ CallNewNormalizer

SpecCompose == InitCompose /\ [][NextCompose]_vars

----------------------------------------------------------------------------
(* The schema builder together with the orchestrator: the table starts      *)
(* empty and the factories fill it between the calls of the orchestrator    *)

InitBuild ==
    /\ toGenerate = EmptyTable
    /\ files = [p \in Paths |-> Missing]
    /\ esIndices = {}
    /\ InitMigration
    /\ producers = <<>>
    /\ composed = NotComposed
    /\ built = NotBuilt
    /\ declared = {}
    /\ levelCall = NoLevelCall
    /\ guarded = NoGuarded
    /\ routines = NoRoutines

\* a call of a factory or of the serializer by the idle program
Make(b, table, decl) ==
    /\ pc = "idle"
    /\ pc' = "done"
    /\ call' = b.by
    /\ built' = b
    /\ toGenerate' = table
    /\ declared' = decl
    /\ UNCHANGED <<files, esIndices, t, indexFn, documentsFn, log, idxRet,
                   docRet, originRet, result, composeVars, levelCall, guarded, routines>>

\* Properties.Keyword(name, fake, properties...) and the twelve other field
\* factories: storeToGenerate, then the body; the producer is not invoked
CallField ==
    /\ pc = "idle"
    /\ \E wire \in FieldKinds, name \in FieldNames, fake \in FakeInputs,
          properties \in SeqsUpTo(Options("Field"), MaxOptions) :
           Make(Built("Field", wire, name, fake, properties, Body(wire, properties)),
                storeToGenerate(toGenerate, name, fake),
                declared \cup {name})

\* NewAnalyzer(Analyzer.Standart(name, properties...)), and Stop, Pattern,
\* Fingerprint, Custom
CallAnalyzer ==
    /\ pc = "idle"
    /\ \E wire \in AnalyzerKindsWithOptions, name \in NodeNames :
        \E properties \in SeqsUpTo(Options(AnalyzerFamily(wire)), MaxOptions) :
           Make(Built("Analyzer", wire, name, "", properties,
                      Body(wire, properties)),
                toGenerate, declared)

\* NewAnalyzer(Analyzer.Simple(name)), and Whitespace, Keyword
CallAnalyzerPlain ==
    /\ pc = "idle"
    /\ \E wire \in AnalyzerKindsPlain, name \in NodeNames :
           Make(Built("AnalyzerPlain", wire, name, "", <<>>, PlainBody(wire)),
                toGenerate, declared)

\* NewAnalyzer(Analyzer.Language(name, language, properties...))
CallAnalyzerLanguage ==
    /\ pc = "idle"
    /\ \E language \in Languages, name \in NodeNames,
          properties \in SeqsUpTo(Options("AnalyzerLanguage"), MaxOptions) :
           Make(Built("AnalyzerLanguage", language, name, language, properties,
                      LanguageBody(language, properties)),
                toGenerate, declared)

\* NewNormalizer(Normalizer.Custom(name, properties...))
CallNormalizer ==
    /\ pc = "idle"
    /\ \E name \in NodeNames,
          properties \in SeqsUpTo(Options("Normalizer"), MaxOptions) :
           Make(Built("Normalizer", "custom", name, "", properties,
                      Body("custom", properties)),
                toGenerate, declared)

\* utils.MarshalJSON(config.Definition)
CallMarshalJSON ==
    /\ pc = "idle"
    /\ \E d \in Definitions :
           Make(Built("MarshalJSON", "", "", d, <<>>, MarshalDefinition(d)),
                toGenerate, declared)

NextBuild ==
    \/ CallField
    \/ CallAnalyzer
    \/ CallAnalyzerPlain
    \/ CallAnalyzerLanguage
    \/ CallNormalizer
    \/ CallMarshalJSON
    \/ Next

SpecBuild == InitBuild /\ [][NextBuild]_vars

----------------------------------------------------------------------------
(* A schema build whose caller keeps the producers the field factories      *)
(* return and hands them to NewFields                                       *)

\* most producers the caller keeps for NewFields
MaxKept == 2

\* the field factories the build calls, without options
KeptKinds == {"keyword", "text"}

\* the producer a field factory returns: {name: r}
FieldProducer(wire, name) == Producer([k \in {name} |-> Body(wire, <<>>)])

\* a faulty field factory: the producer is returned and the name is not
\* recorded
CallFieldKeptUnrecorded ==
    /\ pc = "idle"
    /\ \E wire \in KeptKinds, name \in FieldNames, keep \in BOOLEAN :
         /\ keep => Len(producers) < MaxKept
         /\ producers' = IF keep
                          THEN Append(producers, FieldProducer(wire, name))
                          ELSE producers
    /\ UNCHANGED <<toGenerate, declared, files, esIndices, migVars, composed,
                   built, levelCall, guarded, routines>>

\* fn := Properties.Keyword(name, fake) or Properties.Text(name, fake):
\* storeToGenerate(name, fake); the caller keeps fn for NewFields or drops it
CallFieldKept ==
    /\ pc = "idle"
    /\ \E wire \in KeptKinds, name \in FieldNames, fake \in FakeInputs,
          keep \in BOOLEAN :
         /\ keep => Len(producers) < MaxKept
         /\ toGenerate' = storeToGenerate(toGenerate, name, fake)
         /\ declared' = declared \cup {name}
         /\ producers' = IF keep
                          THEN Append(producers, FieldProducer(wire, name))
                          ELSE producers
    /\ UNCHANGED <<files, esIndices, migVars, composed, built, levelCall,
                   guarded, routines>>

\* m.NewFields(fields...) of the producers kept so far
CallNewFieldsKept ==
    /\ pc = "idle"
    /\ composed' = [by |-> "NewFields", result |-> NewFields(producers)]
    /\ UNCHANGED <<toGenerate, files, esIndices, migVars, producers,
                   buildVars, levelCall, guarded, routines>>

NextDeclare ==
    \/ CallFieldKept
    \/ CallNewFieldsKept
    \/ CallOrigin
    \/ Return

SpecDeclare == InitBuild /\ [][NextDeclare]_vars

----------------------------------------------------------------------------
(* The level-based M: New(cc, config), MigrateUp(to), MigrateDown(to)       *)

levelZero == 0
LevelIndex == 1
LevelDocuments == 2

\* the levels a caller passes: to is an int, the three above and one on
\* either side of them
Levels == (levelZero - 1)..(LevelDocuments + 1)

\* Config{IndexDefinition: IndexConfig{Name}, MigrationsPath}
LevelConfigs ==
    {[Name |-> n, MigrationsPath |-> p] : n \in IndexNames, p \in Paths}

\* *esapi.Response and error of a call of the client: the status code and
\* the decoded body; a transport failure has neither
Answer(status, body) == [status |-> status, body |-> body]

AnswerTransport   == Answer("", RespTransport)
AnswerOK          == Answer("StatusOK", RespOK)
AnswerNotFound    == Answer("StatusNotFound", RespOK)
AnswerServerError == Answer("StatusInternalServerError", RespOK)
AnswerRejected    == Answer("StatusBadRequest", RespErrorObject)
AnswerBulkItems   == Answer("StatusOK", RespBulkItems)
AnswerBulkNoItems == Answer("StatusOK", RespBulkNoItems)

\* what the engine answers IsIndexExist for this name
ExistsAnswers(es, name) ==
    {AnswerTransport, AnswerServerError,
     IF name \in es THEN AnswerOK ELSE AnswerNotFound}

\* what the engine answers CreateIndex, DeleteIndex and DeleteDocuments
QueryAnswers == {AnswerTransport, AnswerOK, AnswerRejected, AnswerServerError}

\* what the engine answers CreateDocuments
BulkAnswers == QueryAnswers \cup {AnswerBulkItems, AnswerBulkNoItems}

\* the engine carried the request out
LevelAccepted(answer) == Accepted(answer.body) /\ answer.status = "StatusOK"

\* one recorded call of the level-based client, with what the engine answered
EvLevel(ev, name, query, answer) ==
    [ev |-> ev, name |-> name, query |-> query,
     accepted |-> LevelAccepted(answer), resp |-> answer.body,
     status |-> answer.status]

\* utils.ExtractBulkErrors: ok when "errors" is true, with the reasons of
\* the items when "items" is a list
ExtractBulkErrors(resp) ==
    IF ~resp.errors THEN [errors |-> <<>>, ok |-> FALSE]
    ELSE IF ~resp.items THEN [errors |-> <<>>, ok |-> TRUE]
    ELSE [errors |-> resp.reasons, ok |-> TRUE]

\* what a part of MigrateUp / MigrateDown leaves: the error it returns with
\* (nil when the call goes on), the calls it made, the indices of the engine
LevelOut(err, events, es) == [err |-> err, events |-> events, es |-> es]

ConnectionErr == Errorf("ErrElasticsearchConnection", TransportErr)

\* to == levelZero || to > LevelDocuments
WrongLevel(to) == to = levelZero \/ to > LevelDocuments

\* a faulty LevelIndexUp: CreateIndex is issued whatever the probe found
LevelIndexUpNoProbe(to, config, es, probe, create) ==
    LET name == config.Name
        called == <<EvLevel("IsIndexExist", name, "", probe),
                    EvLevel("CreateIndex", name, "", create)>>
        r == ExtractError(create.body)
    IN  IF probe.body.transport \/ create.body.transport
        THEN LevelOut(ConnectionErr, called, es)
        ELSE IF r.ok
        THEN LevelOut(Errorf("ErrCreateQuery", Text(r.reason)), called, es)
        ELSE LevelOut(NilErr, called,
                      IF LevelAccepted(create) /\ name # ""
                      THEN es \cup {name} ELSE es)

\* MigrateUp, if to >= LevelIndex { ... }: the probe, and CreateIndex
LevelIndexUp(to, config, es, probe, create) ==
    LET name == config.Name
        probed == <<EvLevel("IsIndexExist", name, "", probe)>>
        called == probed \o <<EvLevel("CreateIndex", name, "", create)>>
        r == ExtractError(create.body)
    IN  IF probe.body.transport
        THEN LevelOut(ConnectionErr, probed, es)
        ELSE IF probe.status = "StatusNotFound"
        THEN IF create.body.transport
             THEN LevelOut(ConnectionErr, called, es)
             ELSE IF r.ok
             THEN LevelOut(Errorf("ErrCreateQuery", Text(r.reason)), called, es)
             ELSE LevelOut(NilErr, called,
                           IF LevelAccepted(create) /\ name # ""
                           THEN es \cup {name} ELSE es)
        ELSE IF probe.status = "StatusOK"
        THEN IF to = LevelIndex
             THEN LevelOut(Errorf("ErrIndexAlreadyExists", Text(probe.status)),
                           probed, es)
             ELSE LevelOut(NilErr, probed, es)
        ELSE LevelOut(Errorf("ErrUnexpectedStatusCode", Text(probe.status)),
                      probed, es)

\* MigrateUp, if to == LevelDocuments { ... }: GetContents, CreateDocuments
LevelDocumentsUp(config, es, fs, bulk) ==
    LET name == config.Name
        migrations == OsReadFile(fs, config.MigrationsPath)
        called == <<EvLevel("CreateDocuments", name, "", bulk)>>
        r == ExtractBulkErrors(bulk.body)
    IN  IF ~migrations.err.nil
        THEN IF ErrorsIs(migrations.err, "fs.ErrNotExist")
             THEN LevelOut(Errorf("ErrMigrationsNotFound", migrations.err),
                           <<>>, es)
             ELSE LevelOut(Errorf("ErrUnexpected", migrations.err), <<>>, es)
        ELSE IF bulk.body.transport
        THEN LevelOut(ConnectionErr, called, es)
        ELSE IF r.ok
        THEN LevelOut(Errorf("ErrBulkQuery",
                             [nil |-> FALSE, is |-> {}, msg |-> r.errors]),
                      called, es)
        ELSE IF bulk.status = "StatusOK"
        THEN LevelOut(NilErr, called, es)
        ELSE LevelOut(Errorf("ErrUnexpectedStatusCode", Text(bulk.status)),
                      called, es)

\* MigrateDown, if to <= LevelDocuments { ... }: DeleteDocuments
LevelDocumentsDown(config, es, answer) ==
    LET called == <<EvLevel("DeleteDocuments", config.Name, MatchAllQuery,
                            answer)>>
        r == ExtractError(answer.body)
    IN  IF answer.body.transport
        THEN LevelOut(ConnectionErr, called, es)
        ELSE IF r.ok
        THEN LevelOut(Errorf("ErrIndicesDelete", Text(r.reason)), called, es)
        ELSE LevelOut(NilErr, called, es)

\* MigrateDown, if to == LevelIndex { ... }: DeleteIndex
LevelIndexDown(config, es, answer) ==
    LET called == <<EvLevel("DeleteIndex", config.Name, "", answer)>>
        r == ExtractError(answer.body)
    IN  IF answer.body.transport
        THEN LevelOut(ConnectionErr, called, es)
        ELSE IF r.ok
        THEN LevelOut(Errorf("ErrDocumentsDelete", Text(r.reason)), called, es)
        ELSE LevelOut(NilErr, called,
                      IF LevelAccepted(answer) THEN es \ {config.Name} ELSE es)

\* where MigrateUp goes on after the guard
AfterGuardUp(to) ==
    IF WrongLevel(to) THEN "done"
    ELSE IF to >= LevelIndex THEN "levelIndex"
    ELSE IF to = LevelDocuments THEN "levelDocuments"
    ELSE "done"

\* a faulty AfterDocumentsDown: the return for LevelDocuments is missing and
\* the index is deleted at either level
AfterDocumentsDownFallsThrough(to) == "levelIndex"

\* where MigrateDown goes on after DeleteDocuments
AfterDocumentsDown(to) ==
    IF to = LevelDocuments THEN "done"
    ELSE IF to = LevelIndex THEN "levelIndex"
    ELSE "done"

\* where MigrateDown goes on after the guard
AfterGuardDown(to) ==
    IF WrongLevel(to) THEN "done"
    ELSE IF to <= LevelDocuments THEN "levelDocuments"
    ELSE AfterDocumentsDown(to)

\* what the guard returns
GuardReturned(to) ==
    IF WrongLevel(to)
    THEN Errorf("ErrWrongLevel",
                Text("what to do? -> use one of the provided level types"))
    ELSE NilErr

\* New(cc, config) and a call of one of the two methods with level to
LevelBegin(name, to, config, at) ==
    /\ pc' = at
    /\ call' = name
    /\ levelCall' = [to |-> to, config |-> config]
    /\ log' = <<>>
    /\ idxRet' = "none"
    /\ docRet' = "none"
    /\ result' = GuardReturned(to)
    /\ UNCHANGED <<toGenerate, files, esIndices, t, indexFn, documentsFn,
                   originRet, composeVars, buildVars, guarded, routines>>

\* a part of the call has run
LevelStep(o, next) ==
    /\ log' = log \o o.events
    /\ esIndices' = o.es
    /\ result' = o.err
    /\ pc' = IF o.err.nil THEN next ELSE "done"
    /\ UNCHANGED <<toGenerate, files, call, t, indexFn, documentsFn,
                   originRet, composeVars, buildVars, levelCall, guarded, routines>>

Outcome(err) == IF err.nil THEN "ok" ELSE "err"

LevelStartMigrateUp ==
    /\ pc = "idle"
    /\ \E to \in Levels, config \in LevelConfigs :
          LevelBegin("LevelMigrateUp", to, config, AfterGuardUp(to))

LevelMigrateUpIndex ==
    /\ pc = "levelIndex"
    /\ call = "LevelMigrateUp"
    /\ \E probe \in ExistsAnswers(esIndices, levelCall.config.Name),
          create \in QueryAnswers :
          LET o == LevelIndexUp(levelCall.to, levelCall.config, esIndices,
                                probe, create)
          IN  /\ LevelStep(o, IF levelCall.to = LevelDocuments
                              THEN "levelDocuments" ELSE "done")
              /\ idxRet' = Outcome(o.err)
              /\ UNCHANGED docRet

LevelMigrateUpDocuments ==
    /\ pc = "levelDocuments"
    /\ call = "LevelMigrateUp"
    /\ \E bulk \in BulkAnswers :
          LET o == LevelDocumentsUp(levelCall.config, esIndices, files, bulk)
          IN  /\ LevelStep(o, "done")
              /\ docRet' = Outcome(o.err)
              /\ UNCHANGED idxRet

LevelStartMigrateDown ==
    /\ pc = "idle"
    /\ \E to \in Levels, config \in LevelConfigs :
          LevelBegin("LevelMigrateDown", to, config, AfterGuardDown(to))

LevelMigrateDownDocuments ==
    /\ pc = "levelDocuments"
    /\ call = "LevelMigrateDown"
    /\ \E answer \in QueryAnswers :
          LET o == LevelDocumentsDown(levelCall.config, esIndices, answer)
          IN  /\ LevelStep(o, AfterDocumentsDown(levelCall.to))
              /\ docRet' = Outcome(o.err)
              /\ UNCHANGED idxRet

LevelMigrateDownIndex ==
    /\ pc = "levelIndex"
    /\ call = "LevelMigrateDown"
    /\ \E answer \in QueryAnswers :
          LET o == LevelIndexDown(levelCall.config, esIndices, answer)
          IN  /\ LevelStep(o, "done")
              /\ idxRet' = Outcome(o.err)
              /\ UNCHANGED docRet

InitLevel ==
    /\ toGenerate = EmptyTable
    /\ files \in [Paths -> FileStates]
    /\ esIndices \in SUBSET (IndexNames \ {""})
    /\ InitMigration
    /\ producers = <<>>
    /\ composed = NotComposed
    /\ built = NotBuilt
    /\ declared = {}
    /\ levelCall = NoLevelCall
    /\ guarded = NoGuarded
    /\ routines = NoRoutines

NextLevel ==
    \/ LevelStartMigrateUp
    \/ LevelMigrateUpIndex
    \/ LevelMigrateUpDocuments
    \/ LevelStartMigrateDown
    \/ LevelMigrateDownDocuments
    \/ LevelMigrateDownIndex
    \/ Return

SpecLevel == InitLevel /\ [][NextLevel]_vars

----------------------------------------------------------------------------
(* The guarded Migrator: New(cfg), MigrateUp(path), MigrateDown(documentsOnly) *)

\* the mappings an index can have
Mappings == {"A", "B"}

\* Index.Definition: a map with or without a "mappings" object
GuardedDefinitions == {"none"} \cup Mappings

\* ElasticSearch.Index{Name, Definition}
GuardedConfigs ==
    {[Name |-> "idx", Definition |-> d] : d \in GuardedDefinitions}

\* the path handed to MigrateUp: "" stands for no documents
GuardedPaths == {""} \cup Paths

\* what m.Client.Do and decode give: no response, a body that is no JSON, a
\* body with an "error" object, or another body; live is the "mappings" the
\* body has under the name of the index
Reply(kind, live) == [kind |-> kind, live |-> live]

ReplyTransport   == Reply("transport", "none")
ReplyUndecodable == Reply("undecodable", "none")
ReplyError       == Reply("error", "none")
ReplyOK          == Reply("body", "none")

\* what the engine answers GET /name
CheckReplies(es, name) ==
    {ReplyTransport, ReplyUndecodable}
    \cup (IF name \in es THEN {Reply("body", l) : l \in Mappings}
          ELSE {ReplyError})

\* what the engine answers the other requests
DoReplies == {ReplyTransport, ReplyUndecodable, ReplyError, ReplyOK}

\* one recorded request of the guarded Migrator, with what the engine answered
EvGuarded(ev, name, reply) ==
    [ev |-> ev, name |-> name, query |-> "", accepted |-> reply.kind = "body",
     resp |-> RespOK, reply |-> reply]

\* an error variable of the package, returned as it is
Sentinel(s) == [nil |-> FALSE, is |-> {s}, msg |-> <<s>>]

\* the error of json.NewDecoder(r).Decode
DecodeErr == Cause("json.SyntaxError", "invalid character")

\* what a helper leaves: the error it returns, whether it crashed, the
\* requests it made, the indices of the engine
GuardedOut(err, panic, events, es) ==
    [err |-> err, panic |-> panic, events |-> events, es |-> es]

\* resp, err := m.Client.Do(req); body, err := decode(resp.Body);
\* _, ok := body["error"].(map[string]interface{}): the error the helper
\* returns with before it looks at anything else
ReplyErr(reply, sentinel) ==
    IF reply.kind = "transport" THEN Sentinel("ErrCantEstablishConnection")
    ELSE IF reply.kind = "undecodable" THEN DecodeErr
    ELSE IF reply.kind = "error" THEN Sentinel(sentinel)
    ELSE NilErr

\* checkIndex: the type assertion on Definition["mappings"] crashes when the
\* definition has no mappings; bytes.Equal of the two marshalled maps
checkIndex(config, es, reply) ==
    LET called == <<EvGuarded("checkIndex", config.Name, reply)>>
        err == ReplyErr(reply, "ErrIndexDoesntExists")
    IN  IF ~err.nil THEN GuardedOut(err, FALSE, called, es)
        ELSE IF config.Definition = "none"
        THEN GuardedOut(NilErr, TRUE, called, es)
        ELSE IF reply.live # config.Definition
        THEN GuardedOut(Sentinel("ErrMappingsDontMatch"), FALSE, called, es)
        ELSE GuardedOut(NilErr, FALSE, called, es)

\* createIndex
createIndex(config, es, reply) ==
    GuardedOut(ReplyErr(reply, "ErrCantCreateIndex"), FALSE,
               <<EvGuarded("createIndex", config.Name, reply)>>,
               IF reply.kind = "body" THEN es \cup {config.Name} ELSE es)

\* createDocuments: os.ReadFile, then the bulk request
createDocuments(config, es, fs, path, reply) ==
    LET documents == OsReadFile(fs, path)
    IN  IF ~documents.err.nil
        THEN GuardedOut(documents.err, FALSE, <<>>, es)
        ELSE GuardedOut(ReplyErr(reply, "ErrCantCreateDocuments"), FALSE,
                        <<EvGuarded("createDocuments", config.Name, reply)>>,
                        es)

\* deleteDocuments
deleteDocuments(config, es, reply) ==
    GuardedOut(ReplyErr(reply, "ErrCantDeleteDocuments"), FALSE,
               <<EvGuarded("deleteDocuments", config.Name, reply)>>, es)

\* deleteIndex: the body of the response is not looked at
deleteIndex(config, es, reply) ==
    GuardedOut(IF reply.kind = "transport"
               THEN Sentinel("ErrCantEstablishConnection") ELSE NilErr,
               FALSE,
               <<EvGuarded("deleteIndex", config.Name, reply)>>,
               IF reply.kind = "body" THEN es \ {config.Name} ELSE es)

\* MigrateUp: err := checkIndex(m), and createIndex(m) when the error is
\* ErrIndexDoesntExists
GuardedIndexUp(config, es, probe, create) ==
    LET c == checkIndex(config, es, probe)
        n == createIndex(config, es, create)
    IN  IF c.panic \/ c.err.nil THEN c
        ELSE IF ErrorsIs(c.err, "ErrIndexDoesntExists")
        THEN GuardedOut(n.err, FALSE, c.events \o n.events, n.es)
        ELSE c

\* New(cfg) and a call of one of the two methods
GuardedBegin(name, config, path, documentsOnly) ==
    /\ pc' = "guardedCheck"
    /\ call' = name
    /\ guarded' = [config |-> config, path |-> path,
                   documentsOnly |-> documentsOnly]
    /\ log' = <<>>
    /\ idxRet' = "none"
    /\ docRet' = "none"
    /\ result' = NilErr
    /\ UNCHANGED <<toGenerate, files, esIndices, t, indexFn, documentsFn,
                   originRet, composeVars, buildVars, levelCall, routines>>

\* a part of the call has run
GuardedStep(o, next) ==
    /\ log' = log \o o.events
    /\ esIndices' = o.es
    /\ result' = o.err
    /\ pc' = IF o.panic THEN "panicked"
             ELSE IF o.err.nil THEN next ELSE "done"
    /\ UNCHANGED <<toGenerate, files, call, t, indexFn, documentsFn,
                   originRet, composeVars, buildVars, levelCall, guarded, routines>>

GuardedStartMigrateUp ==
    /\ pc = "idle"
    /\ \E config \in GuardedConfigs, path \in GuardedPaths :
          GuardedBegin("GuardedMigrateUp", config, path, FALSE)

GuardedMigrateUpIndex ==
    /\ pc = "guardedCheck"
    /\ call = "GuardedMigrateUp"
    /\ \E probe \in CheckReplies(esIndices, guarded.config.Name),
          create \in DoReplies :
          LET o == GuardedIndexUp(guarded.config, esIndices, probe, create)
          IN  /\ GuardedStep(o, IF guarded.path = "" THEN "done"
                                ELSE "guardedDocuments")
              /\ idxRet' = IF o.panic THEN "none" ELSE Outcome(o.err)
              /\ UNCHANGED docRet

GuardedMigrateUpDocuments ==
    /\ pc = "guardedDocuments"
    /\ call = "GuardedMigrateUp"
    /\ \E reply \in DoReplies :
          LET o == createDocuments(guarded.config, esIndices, files,
                                   guarded.path, reply)
          IN  /\ GuardedStep(o, "done")
              /\ docRet' = Outcome(o.err)
              /\ UNCHANGED idxRet

GuardedStartMigrateDown ==
    /\ pc = "idle"
    /\ \E config \in GuardedConfigs, documentsOnly \in BOOLEAN :
          GuardedBegin("GuardedMigrateDown", config, "", documentsOnly)

GuardedMigrateDownCheck ==
    /\ pc = "guardedCheck"
    /\ call = "GuardedMigrateDown"
    /\ \E probe \in CheckReplies(esIndices, guarded.config.Name) :
          LET o == checkIndex(guarded.config, esIndices, probe)
          IN  /\ GuardedStep(o, "guardedDelete")
              /\ UNCHANGED <<idxRet, docRet>>

GuardedMigrateDownDelete ==
    /\ pc = "guardedDelete"
    /\ call = "GuardedMigrateDown"
    /\ \E reply \in DoReplies :
          LET o == IF guarded.documentsOnly
                   THEN deleteDocuments(guarded.config, esIndices, reply)
                   ELSE deleteIndex(guarded.config, esIndices, reply)
          IN  /\ GuardedStep(o, "done")
              /\ idxRet' = IF guarded.documentsOnly THEN idxRet
                           ELSE Outcome(o.err)
              /\ docRet' = IF guarded.documentsOnly THEN Outcome(o.err)
                           ELSE docRet

InitGuarded ==
    /\ toGenerate = EmptyTable
    /\ files \in [Paths -> FileStates]
    /\ esIndices \in SUBSET (IndexNames \ {""})
    /\ InitMigration
    /\ producers = <<>>
    /\ composed = NotComposed
    /\ built = NotBuilt
    /\ declared = {}
    /\ levelCall = NoLevelCall
    /\ guarded = NoGuarded
    /\ routines = NoRoutines

NextGuarded ==
    \/ GuardedStartMigrateUp
    \/ GuardedMigrateUpIndex
    \/ GuardedMigrateUpDocuments
    \/ GuardedStartMigrateDown
    \/ GuardedMigrateDownCheck
    \/ GuardedMigrateDownDelete
    \/ Return

SpecGuarded == InitGuarded /\ [][NextGuarded]_vars

----------------------------------------------------------------------------
(* Goroutines on the Field-Binding Table: toGenerate is a package variable, *)
(* a plain map; an assignment to it and a range over it take time           *)

\* the goroutine is inside an access to the map
Accessing(r) == r.at \in {"writing", "iterating"}

\* a faulty MayAccess: a lock that lets one goroutine at the map at a time
MayAccessLocked(rs, g) == \A h \in Routines \ {g} : ~Accessing(rs[h])

\* what stands between a goroutine and the map: storeToGenerate and the loop
\* of Generate take no lock
MayAccess(rs, g) == TRUE

\* two goroutines are inside the map at once and one of them writes
RaceOn(rs) ==
    \E g \in Routines : \E h \in Routines \ {g} :
        rs[g].at = "writing" /\ Accessing(rs[h])

\* what a step of a goroutine leaves alone
RoutineFrame ==
    UNCHANGED <<files, esIndices, call, t, indexFn, documentsFn, log, idxRet,
                docRet, originRet, result, composeVars, built, levelCall,
                guarded>>

\* a field factory called by goroutine g reaches toGenerate[name] = t
BeginStore(g) ==
    /\ pc = "idle"
    /\ routines[g].at = "idle"
    /\ MayAccess(routines, g)
    /\ \E name \in FieldNames, fake \in FakeInputs :
          routines' = [routines EXCEPT ![g] =
                          [at |-> "writing", op |-> "Field", name |-> name,
                           kind |-> fake, seen |-> {}]]
    /\ UNCHANGED <<toGenerate, declared, pc>>
    /\ RoutineFrame

\* the assignment is done
EndStore(g) ==
    /\ pc = "idle"
    /\ routines[g].at = "writing"
    /\ toGenerate' = storeToGenerate(toGenerate, routines[g].name,
                                     routines[g].kind)
    /\ declared' = declared \cup {routines[g].name}
    /\ routines' = [routines EXCEPT ![g].at = "done"]
    /\ UNCHANGED pc
    /\ RoutineFrame

\* Generate called by goroutine g reaches for k, v := range toGenerate
BeginRange(g) ==
    /\ pc = "idle"
    /\ routines[g].at = "idle"
    /\ MayAccess(routines, g)
    /\ routines' = [routines EXCEPT ![g] =
                        [at |-> "iterating", op |-> "Generate", name |-> "",
                         kind |-> "", seen |-> {}]]
    /\ UNCHANGED <<toGenerate, declared, pc>>
    /\ RoutineFrame

\* the loop is done: the keys it has met
EndRange(g) ==
    /\ pc = "idle"
    /\ routines[g].at = "iterating"
    /\ routines' = [routines EXCEPT ![g].at = "done",
                                    ![g].seen = DOMAIN toGenerate]
    /\ UNCHANGED <<toGenerate, declared, pc>>
    /\ RoutineFrame

\* the runtime notices the concurrent access and ends the program ("fatal
\* error: concurrent map writes"); it may also not notice it, and then the
\* goroutines go on
Fatal ==
    /\ pc = "idle"
    /\ RaceOn(routines)
    /\ pc' = "panicked"
    /\ UNCHANGED <<toGenerate, declared, routines>>
    /\ RoutineFrame

InitRace ==
    /\ toGenerate = EmptyTable
    /\ files = [p \in Paths |-> Missing]
    /\ esIndices = {}
    /\ InitMigration
    /\ producers = <<>>
    /\ composed = NotComposed
    /\ built = NotBuilt
    /\ declared = {}
    /\ levelCall = NoLevelCall
    /\ guarded = NoGuarded
    /\ routines = NoRoutines

NextRace ==
    \/ \E g \in Routines : BeginStore(g)
    \/ \E g \in Routines : EndStore(g)
    \/ \E g \in Routines : BeginRange(g)
    \/ \E g \in Routines : EndRange(g)
    \/ Fatal

SpecRace == InitRace /\ [][NextRace]_vars

----------------------------------------------------------------------------
(* Reading the record of a call *)

Pos(ev) == {i \in DOMAIN log : log[i].ev = ev}

Count(ev) == Cardinality(Pos(ev))

ClientCalls == {i \in DOMAIN log : log[i].ev \in ClientEvents}

InMigration == call \in {"MigrateUp", "MigrateDown"}

Finished == pc \in {"done", "panicked"}

\* an origin of this kind has been called, on its own or by MigrateDocuments,
\* and originRet is what it returned
OriginCalled(kind) ==
    /\ documentsFn.origin.kind = kind
    /\ \/ call = "Origin" /\ Finished
       \/ call = "MigrateUp" /\ documentsFn.kind = "MigrateDocuments"
                             /\ docRet # "none"

RECURSIVE SplitFrom(_, _, _, _)
\* the lines of a payload: the tokens before each newline, and what follows
\* the last newline
SplitFrom(bytes, i, cur, lines) ==
    IF i > Len(bytes) THEN [lines |-> lines, rest |-> cur]
    ELSE IF bytes[i].kind = "nl"
    THEN SplitFrom(bytes, i + 1, <<>>, Append(lines, cur))
    ELSE SplitFrom(bytes, i + 1, Append(cur, bytes[i]), lines)

Split(bytes) == SplitFrom(bytes, 1, <<>>, <<>>)

IsJSONLine(line) == Len(line) = 1 /\ line[1].kind = "json"

ObjectKeys(obj) == {obj.pairs[i][1] : i \in DOMAIN obj.pairs}

\* the line is {"index": {..., "_id": c, ...}}
IsMetaLine(line, c) ==
    /\ IsJSONLine(line)
    /\ ObjectKeys(line[1]) = {"index"}
    /\ LET inner == line[1].pairs[1][2]
       IN  \E i \in DOMAIN inner.pairs :
              inner.pairs[i][1] = "_id" /\ inner.pairs[i][2] = c

\* the line is a JSON object with exactly these keys
IsDocumentLine(line, keys) ==
    /\ IsJSONLine(line)
    /\ ObjectKeys(line[1]) = keys

----------------------------------------------------------------------------
(* The claims *)

\* C1: MigrateUp invokes the index operation exactly once and first; it
\* invokes the documents operation at most once and only after the index
\* operation has returned success; if the index operation fails, the documents
\* operation is never invoked and MigrateUp returns an error.
C1_UpIndexThenDocuments ==
    call = "MigrateUp" =>
        /\ pc = "index" => log = <<>>
        /\ pc # "index" => Count("index") = 1 /\ log[1].ev = "index"
        /\ Count("documents") <= 1
        /\ Count("documents") = 1 =>
              /\ idxRet = "ok"
              /\ \A i \in Pos("index"), j \in Pos("documents") : i < j
        /\ idxRet = "err" =>
              /\ Count("documents") = 0
              /\ pc = "done"
              /\ ~result.nil

\* both operations of a MigrateUp have run, in this order
C1_Witness ==
    /\ call = "MigrateUp"
    /\ pc = "done"
    /\ indexFn.kind = "Custom"
    /\ documentsFn.kind = "Custom"
    /\ Count("index") = 1
    /\ Count("documents") = 1
    /\ result.nil

\* C2: MigrateDown invokes the documents operation exactly once and first; it
\* invokes the index operation at most once and only after the documents
\* operation has returned success; if the documents operation fails, the index
\* operation is never invoked and MigrateDown returns an error.
C2_DownDocumentsThenIndex ==
    call = "MigrateDown" =>
        /\ pc = "documents" => log = <<>>
        /\ pc # "documents" => Count("documents") = 1 /\ log[1].ev = "documents"
        /\ Count("index") <= 1
        /\ Count("index") = 1 =>
              /\ docRet = "ok"
              /\ \A i \in Pos("documents"), j \in Pos("index") : i < j
        /\ docRet = "err" =>
              /\ Count("index") = 0
              /\ pc = "done"
              /\ ~result.nil

\* the documents operation of a MigrateDown has failed and the call is over
C2_Witness ==
    /\ call = "MigrateDown"
    /\ pc = "done"
    /\ documentsFn.kind = "MigrateDocuments"
    /\ indexFn.kind = "MigrateIndex"
    /\ docRet = "err"
    /\ Count("index") = 0
    /\ ~result.nil

\* C3: when the index phase of an Up migration has succeeded (create-index
\* was issued and returned no error) and the documents phase then fails,
\* MigrateUp returns an error and issues neither delete-index nor
\* delete-by-query; an index the engine created is still there.
C3_NoRollback ==
    ( /\ call = "MigrateUp"
      /\ idxRet = "ok"
      /\ Count("CreateIndex") = 1
      /\ docRet = "err" ) =>
        /\ pc = "done"
        /\ ~result.nil
        /\ Count("DeleteIndex") = 0
        /\ Count("DeleteDocuments") = 0
        /\ \A i \in Pos("CreateIndex") :
              log[i].accepted /\ log[i].name # "" => log[i].name \in esIndices

\* the engine created the index and the bulk insert then failed
C3_Witness ==
    /\ call = "MigrateUp"
    /\ pc = "done"
    /\ \E i \in Pos("CreateIndex") : log[i].accepted /\ log[i].name = "idx"
    /\ \E i \in Pos("CreateDocuments") : ~log[i].accepted
    /\ docRet = "err"
    /\ "idx" \in esIndices

\* C4: MigrateUp with NoIndex and NoDocuments returns success for every
\* config, among them a config with no definition, and makes no call to the
\* search-engine client; so does MigrateDown with both.
C4_NoopsSucceed ==
    ( /\ InMigration
      /\ indexFn = NoIndex
      /\ documentsFn = NoDocuments ) =>
        /\ ClientCalls = {}
        /\ result.nil
        /\ pc # "panicked"
        /\ idxRet # "err"
        /\ docRet \notin {"err", "panic"}

\* a MigrateUp of the empty config with both no-ops has returned nil
C4_Witness ==
    /\ call = "MigrateUp"
    /\ pc = "done"
    /\ indexFn = NoIndex
    /\ documentsFn = NoDocuments
    /\ t.config.Definition = "none"
    /\ t.config.Name = ""
    /\ Len(log) = 2
    /\ result.nil

\* C5: the direction is fixed for the whole call: during MigrateUp the only
\* client operations MigrateIndex and MigrateDocuments issue are create-index
\* and bulk-insert, during MigrateDown delete-by-query and delete-index.
C5_DirectionFixed ==
    /\ call = "MigrateUp" =>
          /\ t.direction = directionUp
          /\ \A i \in ClientCalls : log[i].ev \in {"CreateIndex", "CreateDocuments"}
    /\ call = "MigrateDown" =>
          /\ t.direction = directionDown
          /\ \A i \in ClientCalls : log[i].ev \in {"DeleteDocuments", "DeleteIndex"}

\* a MigrateDown with both real operations has issued its two deletes
C5_Witness ==
    /\ call = "MigrateDown"
    /\ pc = "done"
    /\ indexFn.kind = "MigrateIndex"
    /\ documentsFn.kind = "MigrateDocuments"
    /\ Count("DeleteDocuments") = 1
    /\ Count("DeleteIndex") = 1

\* C6: in the documents phase on Up the origin is invoked exactly once and
\* before any client call of the phase, and bulk-insert is issued only if the
\* origin returned a payload without error (an origin error ends the phase
\* with no client call); on Down the origin is never invoked, a nil origin is
\* accepted, and delete-by-query with the match-all query is issued.
C6_OriginOnlyOnUp ==
    ( /\ InMigration
      /\ documentsFn.kind = "MigrateDocuments"
      /\ docRet # "none" ) =>
        /\ ( call = "MigrateUp" /\ documentsFn.origin # NilOrigin ) =>
              /\ Count("origin") = 1
              /\ \A i \in Pos("origin"), j \in ClientCalls :
                    (\E d \in Pos("documents") : d < j) => i < j
              /\ Count("CreateDocuments") <= 1
              /\ Count("CreateDocuments") = 1 =>
                    originRet.err.nil /\ ~originRet.panic
              /\ ~originRet.err.nil =>
                    /\ docRet = "err"
                    /\ \A j \in ClientCalls : \A d \in Pos("documents") : j < d
              /\ ( originRet.err.nil /\ ~originRet.panic ) =>
                    Count("CreateDocuments") = 1
        /\ call = "MigrateDown" =>
              /\ Count("origin") = 0
              /\ docRet # "panic"
              /\ Count("DeleteDocuments") = 1
              /\ \A i \in Pos("DeleteDocuments") : log[i].query = MatchAllQuery

\* a MigrateDown with MigrateDocuments(nil) has deleted the documents
C6_Witness ==
    /\ call = "MigrateDown"
    /\ documentsFn.kind = "MigrateDocuments"
    /\ documentsFn.origin = NilOrigin
    /\ docRet = "ok"
    /\ Count("DeleteDocuments") = 1

\* C7: for every n >= 0 and every state of the Field-Binding Table,
\* Generate(n) returns without error a payload of exactly 2n lines, each
\* terminated by a newline, the last one too; the odd lines are action-meta
\* lines with _id 1..n in increasing order, and each even line is a JSON
\* object whose keys are exactly the field names of the table.
C7_GenerateTwoNLines ==
    OriginCalled("Generate") =>
        LET n == documentsFn.origin.amount
            s == Split(originRet.docs.bytes)
        IN  /\ ~originRet.panic
            /\ originRet.err.nil
            /\ Len(s.lines) = 2 * n
            /\ s.rest = <<>>
            /\ \A c \in 1..n :
                  /\ IsMetaLine(s.lines[2 * c - 1], c)
                  /\ IsDocumentLine(s.lines[2 * c], DOMAIN toGenerate)

\* C8: when the table binds a field to a fake kind the provider has no
\* generator for, Generate does not fail: it returns a payload and no error,
\* and it does not crash.
C8_UnknownKindNoFailure ==
    ( /\ OriginCalled("Generate")
      /\ \E k \in DOMAIN toGenerate : toGenerate[k] \notin KnownFakes ) =>
        /\ ~originRet.panic
        /\ originRet.err.nil
        /\ Len(Split(originRet.docs.bytes).lines) = 2 * documentsFn.origin.amount

\* what FromFile returns for a file that can be read, and for an empty one
FromFileReads(f) ==
    /\ f.exists /\ f.readable =>
          /\ originRet.err.nil
          /\ ~originRet.docs.isNil
          /\ originRet.docs.bytes = f.bytes
    /\ f = EmptyFile =>
          /\ originRet.err.nil
          /\ Len(originRet.docs.bytes) = 0

\* C9, as claimed: FromFile(path) returns the file's bytes verbatim; for a
\* path that does not exist it returns no payload and a distinct origin error
\* in whose chain the underlying not-found error stays identifiable; for an
\* existing zero-byte file it returns a zero-length payload and no error.
C9_FromFileWrapsCause ==
    OriginCalled("FromFile") =>
        LET f == files[documentsFn.origin.path]
        IN  /\ FromFileReads(f)
            /\ ~f.exists =>
                  /\ originRet.docs.isNil
                  /\ ~originRet.err.nil
                  /\ ErrorsIs(originRet.err, "ErrOriginFromFile")
                  /\ ErrorsIs(originRet.err, "fs.ErrNotExist")

\* C9, amended: as above, but for a path that does not exist the returned
\* error is identifiable as ErrOriginFromFile only; the not-found error is
\* formatted into its message and is not in its chain.
C9_FromFileSentinelOnly ==
    OriginCalled("FromFile") =>
        LET f == files[documentsFn.origin.path]
        IN  /\ FromFileReads(f)
            /\ ~f.exists =>
                  /\ originRet.docs.isNil
                  /\ ~originRet.err.nil
                  /\ ErrorsIs(originRet.err, "ErrOriginFromFile")
                  /\ ~ErrorsIs(originRet.err, "fs.ErrNotExist")
                  /\ \E i \in DOMAIN originRet.err.msg :
                        originRet.err.msg[i] = "no such file or directory"

\* FromFile has been called on a path that does not exist
C9_Witness ==
    /\ call = "Origin"
    /\ pc = "done"
    /\ documentsFn.origin.kind = "FromFile"
    /\ ~files[documentsFn.origin.path].exists
    /\ ~originRet.err.nil

\* the producers that are not nil
NonNil == {i \in DOMAIN producers : ~producers[i].nil}

\* the last producer that contributes key k
LastWith(k) ==
    CHOOSE i \in NonNil :
        /\ k \in DOMAIN producers[i].m
        /\ \A j \in NonNil : k \in DOMAIN producers[j].m => j <= i

\* C10: GetMap / NewFields over an ordered sequence of producers returns a
\* map whose key set is exactly the union of the keys contributed by the
\* non-nil producers; a key contributed by several producers has the value of
\* the latest of them; nil entries contribute nothing and cause no error.
C10_UnionLastWins ==
    composed.by # "none" =>
        /\ DOMAIN composed.result = UNION {DOMAIN producers[i].m : i \in NonNil}
        /\ \A k \in DOMAIN composed.result :
              composed.result[k] = producers[LastWith(k)].m[k]

\* a nil entry was skipped and a later producer overwrote an earlier one
C10_Witness ==
    /\ composed.by = "GetMap"
    /\ \E i \in DOMAIN producers : producers[i].nil
    /\ \E i \in NonNil, j \in NonNil, k \in Keys :
          /\ i < j
          /\ k \in DOMAIN producers[i].m
          /\ k \in DOMAIN producers[j].m
          /\ producers[i].m[k] # producers[j].m[k]
          /\ composed.result[k] = producers[j].m[k]

----------------------------------------------------------------------------
(* Reading what a factory call built *)

FactoryCalled ==
    built.by \in {"Field", "Analyzer", "AnalyzerPlain", "AnalyzerLanguage",
                  "Normalizer"}

\* the options that were supplied: the non-nil entries
Supplied == {i \in DOMAIN built.options : ~built.options[i].nil}

SuppliedKeys == UNION {DOMAIN built.options[i].m : i \in Supplied}

PairwiseDisjoint ==
    \A i, j \in Supplied :
        i # j => DOMAIN built.options[i].m \cap DOMAIN built.options[j].m = {}

\* the value the last supplied option with key k carries
LastSupplied(k) ==
    LET with == {i \in Supplied : k \in DOMAIN built.options[i].m}
        last == CHOOSE i \in with : \A j \in with : j <= i
    IN  built.options[last].m[k]

\* a stem_exclusion option was handed to the language factory for a language
\* outside the allow-list
StemExclusionDropped ==
    /\ built.by = "AnalyzerLanguage"
    /\ built.arg \notin stemExclusionAllow
    /\ "stem_exclusion" \in SuppliedKeys

----------------------------------------------------------------------------
\* C11: for every field, analyzer and normalizer kind, a factory given N
\* options with pairwise-disjoint keys builds a body with exactly N+1 keys,
\* the N option keys plus "type"; with no option the body has the one key
\* "type".
C11_NPlusOneKeys ==
    (FactoryCalled /\ PairwiseDisjoint) =>
        /\ Cardinality(DOMAIN built.body) = Cardinality(Supplied) + 1
        /\ DOMAIN built.body = SuppliedKeys \cup {"type"}

\* an option the caller wrote carries a "type" key of its own
OwnTypeSupplied == "type" \in SuppliedKeys

\* C11 as amended: the same, except that the language factory leaves a
\* stem_exclusion option out for a language outside its allow-list, and that
\* an option carrying a "type" key of its own adds no key: each of the two
\* makes the body one key shorter.
C11_NPlusOneKeysButStem ==
    (FactoryCalled /\ PairwiseDisjoint) =>
        LET dropped == IF StemExclusionDropped THEN {"stem_exclusion"} ELSE {}
            own == IF OwnTypeSupplied THEN {"type"} ELSE {}
        IN  /\ Cardinality(DOMAIN built.body) =
                  Cardinality(Supplied) + 1
                      - Cardinality(dropped) - Cardinality(own)
            /\ DOMAIN built.body = (SuppliedKeys \ dropped) \cup {"type"}
            /\ (dropped = {} /\ own = {}) =>
                  Cardinality(DOMAIN built.body) = Cardinality(Supplied) + 1
            /\ Supplied = {} => DOMAIN built.body = {"type"}

\* a field factory was given two options of different keys
C11_Witness ==
    /\ built.by = "Field"
    /\ Cardinality(Supplied) = 2
    /\ PairwiseDisjoint
    /\ Cardinality(DOMAIN built.body) = 3

----------------------------------------------------------------------------
\* C12: the language-analyzer factory leaves stem_exclusion out of the body
\* when the language is not one of the 29 allow-listed languages and keeps it
\* with the supplied value when it is; the other options and "type" (the
\* language) are unaffected; the option itself, as constructed, always
\* carries the key: the filter acts when the body is composed.
C12_StemExclusionAllowList ==
    /\ Cardinality(stemExclusionAllow) = 29
    /\ built.by = "AnalyzerLanguage" =>
        /\ built.body["type"] = built.arg
        /\ built.arg \notin stemExclusionAllow =>
              "stem_exclusion" \notin DOMAIN built.body
        /\ (built.arg \in stemExclusionAllow /\ "stem_exclusion" \in SuppliedKeys) =>
              /\ "stem_exclusion" \in DOMAIN built.body
              /\ built.body["stem_exclusion"] = LastSupplied("stem_exclusion")
        /\ \A k \in SuppliedKeys \ {"stem_exclusion", "type"} :
              /\ k \in DOMAIN built.body
              /\ built.body[k] = LastSupplied(k)
        /\ DOMAIN built.body \subseteq SuppliedKeys \cup {"type"}
        /\ \A i \in Supplied :
              \A v \in OptionValues :
                 built.options[i] = WithStemExclusion(v) =>
                    DOMAIN built.options[i].m = {"stem_exclusion"}

\* stem_exclusion and stopwords were handed in for a language outside the
\* allow-list: the body carries stopwords and the language only
C12_Witness ==
    /\ built.by = "AnalyzerLanguage"
    /\ built.arg = "cjk"
    /\ SuppliedKeys = {"stem_exclusion", "stopwords"}
    /\ DOMAIN built.body = {"stopwords", "type"}

----------------------------------------------------------------------------
(* Reading a serialized schema document *)

Members(obj) == {obj.pairs[i] : i \in DOMAIN obj.pairs}

HasMember(obj, key) == \E p \in Members(obj) : p[1] = key

Member(obj, key) == (CHOOSE p \in Members(obj) : p[1] = key)[2]

Nested(obj) == {p[2] : p \in {q \in Members(obj) : q[2].kind = "json"}}

\* the members of the document at every depth
AllMembers(doc) ==
    Members(doc)
      \cup UNION {Members(o) : o \in Nested(doc)}
      \cup UNION {Members(o2) : o2 \in UNION {Nested(o) : o \in Nested(doc)}}

Serialized == built.by = "MarshalJSON"

\* the sections of the definition that are absent are not in the document
AbsentOmitted(d, doc) ==
    /\ d.Settings.nil => ~HasMember(doc, "settings")
    /\ d.Mappings.nil => ~HasMember(doc, "mappings")
    /\ ~d.Settings.nil =>
          LET st == Member(doc, "settings")
          IN  /\ d.Settings.NumberOfShards = 0 => ~HasMember(st, "number_of_shards")
              /\ d.Settings.NumberOfReplicas = 0 =>
                    ~HasMember(st, "number_of_replicas")
              /\ d.Settings.Analysis.nil => ~HasMember(st, "analysis")
              /\ ~d.Settings.Analysis.nil =>
                    LET an == Member(st, "analysis")
                    IN  /\ d.Settings.Analysis.Analyzer \in {"nil", "empty"} =>
                              ~HasMember(an, "analyzer")
                        /\ d.Settings.Analysis.Normalizer \in {"nil", "empty"} =>
                              ~HasMember(an, "normalizer")
    /\ ~d.Mappings.nil =>
          (d.Mappings.Properties \in {"nil", "empty"} =>
              ~HasMember(Member(doc, "mappings"), "properties"))

\* the sections of the definition that are present are in the document
PresentEmitted(d, doc) ==
    /\ ~d.Settings.nil =>
          /\ HasMember(doc, "settings")
          /\ LET st == Member(doc, "settings")
             IN  /\ d.Settings.NumberOfShards # 0 => HasMember(st, "number_of_shards")
                 /\ d.Settings.NumberOfReplicas # 0 =>
                       HasMember(st, "number_of_replicas")
                 /\ ~d.Settings.Analysis.nil =>
                       /\ HasMember(st, "analysis")
                       /\ LET an == Member(st, "analysis")
                          IN  /\ d.Settings.Analysis.Analyzer = "filled" =>
                                    HasMember(an, "analyzer")
                              /\ d.Settings.Analysis.Normalizer = "filled" =>
                                    HasMember(an, "normalizer")
    /\ ~d.Mappings.nil =>
          /\ HasMember(doc, "mappings")
          /\ d.Mappings.Properties = "filled" =>
                HasMember(Member(doc, "mappings"), "properties")

----------------------------------------------------------------------------
\* C13: in the serialized schema document every optional section (settings,
\* its shard and replica counts, analysis, analyzer, normalizer, mappings,
\* properties) is omitted when absent and is never emitted as null or as an
\* empty object, whatever sections of the definition are present.
C13_OptionalSectionsOmitted ==
    Serialized =>
        /\ AbsentOmitted(built.arg, built.body)
        /\ \A p \in AllMembers(built.body) :
              p[2] # JSONNull /\ p[2] # JSONObject(<<>>)

\* C13 as amended: an absent section (a nil section, a zero count, a nil or
\* empty map) is omitted and a present one is emitted; nothing is emitted as
\* null, and analyzer, normalizer and properties are never emitted as an
\* empty object; a settings, analysis or mappings section that is present
\* with nothing set in it is emitted as an empty object.
C13_OmittedOrEmptySection ==
    Serialized =>
        /\ AbsentOmitted(built.arg, built.body)
        /\ PresentEmitted(built.arg, built.body)
        /\ \A p \in AllMembers(built.body) :
              /\ p[2] # JSONNull
              /\ p[2] = JSONObject(<<>>) =>
                    p[1] \in {"settings", "analysis", "mappings"}

\* settings with one shard and an analysis that has an analyzer only, and no
\* mappings: the document has settings alone, analysis has analyzer alone
C13_Witness ==
    /\ Serialized
    /\ built.arg.Mappings.nil
    /\ ~built.arg.Settings.nil
    /\ built.arg.Settings.NumberOfReplicas = 0
    /\ ~built.arg.Settings.Analysis.nil
    /\ built.arg.Settings.Analysis.Normalizer = "nil"
    /\ ObjectKeys(built.body) = {"settings"}
    /\ ObjectKeys(Member(built.body, "settings")) = {"number_of_shards", "analysis"}
    /\ ObjectKeys(Member(Member(built.body, "settings"), "analysis")) = {"analyzer"}

----------------------------------------------------------------------------
(* Reading the error a migration returned *)

\* the text of the sentinel s is part of the message of e
Mentions(e, s) == \E i \in DOMAIN e.msg : e.msg[i] = s

ClientSentinels == {"ErrClientBadConnection", "ErrClientCreatingIndex",
                    "ErrClientCreatingDocuments", "ErrClientDeletingIndex",
                    "ErrClientDeletingDocuments"}

\* MigrateUp, of either copy, has returned the error of MigrateDocuments
UpDocumentsFailed ==
    /\ call \in {"MigrateUp", "LegacyMigrateUp"}
    /\ pc = "done"
    /\ documentsFn.kind = "MigrateDocuments"
    /\ docRet = "err"

\* ... because the origin returned an error
UpOriginFailure == UpDocumentsFailed /\ ~originRet.err.nil

\* ... because client.CreateDocuments returned an error
UpClientFailure ==
    UpDocumentsFailed /\ originRet.err.nil /\ Count("CreateDocuments") = 1

\* the message names the origin as what failed
OriginText(e) == Mentions(e, "ErrOriginFromFile")

\* the message names the client call as what failed
ClientText(e) ==
    \/ \E s \in ClientSentinels : Mentions(e, s)
    \/ Mentions(e, "> MigrateDocuments().CreateDocuments() @")

\* the error is identifiable as s in its chain, or its message has the text
\* of s
Carries(e, s) == ErrorsIs(e, s) \/ Mentions(e, s)

UpCalls == {"MigrateUp", "LegacyMigrateUp"}

DownCalls == {"MigrateDown", "LegacyMigrateDown"}

\* a migration of either copy, with the operations of the library, has
\* returned an error
MigrationFailed ==
    /\ call \in UpCalls \cup DownCalls
    /\ pc = "done"
    /\ ~result.nil
    /\ indexFn.kind # "Custom"
    /\ documentsFn.kind # "Custom"

----------------------------------------------------------------------------
\* C14: an Up documents-phase failure caused by the origin and one caused by
\* the bulk insert reach the caller of MigrateUp as errors of different
\* kinds: the first is identifiable in the chain as the origin's error and
\* not as a client error, the second as a client error and not as the
\* origin's.
C14_OriginAndClientKindsDiffer ==
    /\ UpOriginFailure =>
          /\ ErrorsIs(result, "ErrOriginFromFile")
          /\ \A s \in ClientSentinels : ~ErrorsIs(result, s)
    /\ UpClientFailure =>
          /\ \E s \in ClientSentinels : ErrorsIs(result, s)
          /\ ~ErrorsIs(result, "ErrOriginFromFile")

\* C14 as amended: both failures reach the caller identifiable as one and
\* the same error only (the up-migration error; in the older copy the
\* documents-phase error), so that their kinds are the same; they differ in
\* the message, which names the origin in the first case and the client call
\* in the second.
C14_SameKindDifferentText ==
    LET kind == IF call = "MigrateUp" THEN {"ErrPorterMigratingUp"}
                ELSE {"ErrMigrateDocuments"}
    IN  /\ UpOriginFailure =>
              /\ result.is = kind
              /\ OriginText(result)
              /\ ~ClientText(result)
        /\ UpClientFailure =>
              /\ result.is = kind
              /\ ClientText(result)
              /\ ~OriginText(result)

\* MigrateUp has returned because FromFile could not read its file
C14_Witness ==
    /\ UpOriginFailure
    /\ call = "MigrateUp"
    /\ documentsFn.origin.kind = "FromFile"
    /\ Count("CreateDocuments") = 0

\* MigrateUp has returned because the bulk insert failed item by item
C14_WitnessClient ==
    /\ UpClientFailure
    /\ call = "MigrateUp"
    /\ Mentions(result, "ErrClientCreatingDocuments")

----------------------------------------------------------------------------
\* C15: every error MigrateUp or MigrateDown returns is wrapped with its
\* direction and its phase: a MigrateUp failure carries the up-migration
\* error, a MigrateDown failure the down-migration error, and either carries
\* the index-phase error when MigrateIndex failed and the documents-phase
\* error when MigrateDocuments failed.
C15_WrappedDirectionAndPhase ==
    MigrationFailed =>
        /\ call \in UpCalls => Carries(result, "ErrPorterMigratingUp")
        /\ call \in DownCalls => Carries(result, "ErrPorterMigratingDown")
        /\ idxRet = "err" =>
              \/ Carries(result, "ErrMigratorMigratingIndex")
              \/ Carries(result, "ErrMigrateIndex")
        /\ docRet = "err" =>
              \/ Carries(result, "ErrMigratorDocuments")
              \/ Carries(result, "ErrMigrateDocuments")

\* the same, of the copy with the direction errors alone
C15_CurrentCopyWraps ==
    call \in {"MigrateUp", "MigrateDown"} => C15_WrappedDirectionAndPhase

----------------------------------------------------------------------------
\* C16: a call of a field factory leaves the table with the fake kind of the
\* call under the field's name, whatever the table held under that name
\* before, and leaves every other entry as it was; it does so although the
\* producer it returns is not invoked and not handed to NewFields.
C16_FactoryRecordsAndOverwrites ==
    [][(built.by # "Field" /\ built'.by = "Field") =>
          /\ DOMAIN toGenerate' = DOMAIN toGenerate \cup {built'.name}
          /\ toGenerate'[built'.name] = built'.arg
          /\ \A k \in DOMAIN toGenerate \ {built'.name} :
                 toGenerate'[k] = toGenerate[k]
          /\ producers' = producers
          /\ composed' = composed]_vars

\* what a field factory left in the table while no producer was ever handed
\* to NewFields: the kind of the last call, under a name that an earlier
\* call had declared together with another one
C16_Witness ==
    /\ built.by = "Field"
    /\ producers = <<>>
    /\ composed = NotComposed
    /\ toGenerate[built.name] = built.arg
    /\ declared = FieldNames
    /\ \E k \in DOMAIN toGenerate : toGenerate[k] # built.arg

----------------------------------------------------------------------------
\* C17: the table only accumulates: every field name a factory was ever
\* called with is still in the table after any sequence of builds and
\* migrations, and a Generate run, whatever its config, emits in every
\* document a value for every such name.
C17_DeclaredFieldsGenerated ==
    /\ declared \subseteq DOMAIN toGenerate
    /\ OriginCalled("Generate") =>
          LET n == documentsFn.origin.amount
              s == Split(originRet.docs.bytes)
          IN  /\ ~originRet.panic
              /\ Len(s.lines) = 2 * n
              /\ \A c \in 1..n :
                    /\ IsJSONLine(s.lines[2 * c])
                    /\ declared \subseteq ObjectKeys(s.lines[2 * c][1])

\* the same, of the tables whose kinds all have a generator
C17_KnownKindsGenerated ==
    (\A k \in DOMAIN toGenerate : toGenerate[k] \in KnownFakes) =>
        C17_DeclaredFieldsGenerated

\* no step removes an entry of the table
C17_NoEntryRemoved ==
    [][DOMAIN toGenerate \subseteq DOMAIN toGenerate']_vars

----------------------------------------------------------------------------
(* What the operations of the library returned for the answers of the engine *)

\* the operation that made the i-th recorded call of the client returned an
\* error
ReportedFailed(i) ==
    IF log[i].ev \in {"CreateIndex", "DeleteIndex"}
    THEN idxRet = "err"
    ELSE docRet = "err"

\* the engine answered the i-th recorded call with a top-level "error" object
ErrorObject(i) == ~log[i].resp.transport /\ log[i].resp.error = "object"

\* the engine answered the i-th recorded call with "errors": true
BulkErrors(i) == ~log[i].resp.transport /\ log[i].resp.errors

\* the error has every reason of the answer in its message
CombinesReasons(e, reasons) ==
    \A j \in DOMAIN reasons : Mentions(e, reasons[j])

\* C18: every call of the client that the engine answers with a top-level
\* "error" object is reported as failed, and a bulk insert answered with
\* "errors": true is reported as failed, with one message that has the
\* reason of every failed item.
C18_ErrorObjectAndBulkErrorsFail ==
    \A i \in DOMAIN log :
        log[i].ev \in ClientEvents =>
            /\ ErrorObject(i) => ReportedFailed(i)
            /\ (log[i].ev = "CreateDocuments" /\ BulkErrors(i)) =>
                  /\ ReportedFailed(i)
                  /\ ~result.nil
                  /\ CombinesReasons(result, log[i].resp.reasons)

\* the same, of the three calls that go through ExtractError and of the bulk
\* insert answered with "errors": true and a list of items
C18_ExtractErrorAndItemsFail ==
    \A i \in DOMAIN log :
        log[i].ev \in ClientEvents =>
            /\ (log[i].ev # "CreateDocuments" /\ ErrorObject(i)) =>
                  ReportedFailed(i)
            /\ (log[i].ev = "CreateDocuments" /\ BulkErrors(i)
                   /\ log[i].resp.items) =>
                  /\ ReportedFailed(i)
                  /\ ~result.nil
                  /\ CombinesReasons(result, log[i].resp.reasons)

----------------------------------------------------------------------------
LevelCalls == {"LevelMigrateUp", "LevelMigrateDown"}

\* C19: a call of the level-based MigrateUp or MigrateDown with a level
\* other than LevelIndex and LevelDocuments, a negative one too, makes no
\* call of the client and returns the wrong-level error.
C19_OtherLevelsRefused ==
    ( /\ call \in LevelCalls
      /\ levelCall.to \notin {LevelIndex, LevelDocuments} ) =>
        /\ log = <<>>
        /\ pc = "done" => ErrorsIs(result, "ErrWrongLevel")

\* the same, of level zero and of the levels above LevelDocuments
C19_ZeroAndAboveRefused ==
    levelCall.to >= levelZero => C19_OtherLevelsRefused

----------------------------------------------------------------------------
\* a migration with the operations of the library, started with the empty
\* config, has returned
EmptyConfigMigrated ==
    /\ call \in {"MigrateUp", "MigrateDown"}
    /\ pc = "done"
    /\ t.config.Name = ""
    /\ indexFn.kind = "MigrateIndex"
    /\ documentsFn.kind = "MigrateDocuments"

\* C20: a migration started with a config whose index name is empty, with
\* MigrateIndex and MigrateDocuments as its operations, returns an error, and
\* the error is the configuration error for the missing index name.
C20_EmptyNameConfigurationError ==
    EmptyConfigMigrated =>
        /\ ~result.nil
        /\ Carries(result, "ErrIndexNameNotSpecified")

\* what the code does instead: the empty name is handed to the client, and
\* no migration returns the error for the missing index name
C20_NameNeverChecked ==
    /\ ~Carries(result, "ErrIndexNameNotSpecified")
    /\ (EmptyConfigMigrated /\ call = "MigrateUp") =>
          \E i \in Pos("CreateIndex") : log[i].name = ""

----------------------------------------------------------------------------
\* the engine rejected the call of this kind that the level-based call made
Rejected(ev) ==
    \E i \in Pos(ev) : ~log[i].resp.transport /\ log[i].resp.error = "object"

\* C21: when the level-based MigrateDown fails because the engine rejected
\* the delete-by-query, the error it returns is the can't-delete-documents
\* error; when it fails because the engine rejected the delete-index, the
\* error is the can't-delete-index error; neither is returned for the other.
C21_DeleteErrorsNotExchanged ==
    (call = "LevelMigrateDown" /\ pc = "done") =>
        /\ Rejected("DeleteDocuments") =>
              /\ ErrorsIs(result, "ErrDocumentsDelete")
              /\ ~ErrorsIs(result, "ErrIndicesDelete")
        /\ Rejected("DeleteIndex") =>
              /\ ErrorsIs(result, "ErrIndicesDelete")
              /\ ~ErrorsIs(result, "ErrDocumentsDelete")

\* what the code does: each rejected delete is reported, as the error of the
\* other one
C21_DeleteErrorsExchanged ==
    (call = "LevelMigrateDown" /\ pc = "done") =>
        /\ Rejected("DeleteDocuments") => result.is = {"ErrIndicesDelete"}
        /\ Rejected("DeleteIndex") => result.is = {"ErrDocumentsDelete"}

----------------------------------------------------------------------------
\* the answer of the engine to the probe of the level-based MigrateUp
Probed == log[1]

\* os.ReadFile failed and the level-based MigrateUp returned its error
MigrationsNotRead ==
    ErrorsIs(result, "ErrMigrationsNotFound") \/ ErrorsIs(result, "ErrUnexpected")

\* C26: in the level-based MigrateUp the status of the probe decides what
\* follows. 404: create-index is issued next. 200 at LevelIndex: the call
\* fails with index-already-exists and creates nothing. 200 at
\* LevelDocuments: nothing is created and the call goes on to the documents
\* part, which issues the bulk insert once the migrations are read. Any other
\* status: the call fails with the unexpected-status error, and neither
\* create-index nor bulk insert is issued.
C26_ProbeDecidesCreation ==
    ( /\ call = "LevelMigrateUp"
      /\ Count("IsIndexExist") > 0
      /\ ~Probed.resp.transport ) =>
        /\ Probed.ev = "IsIndexExist"
        /\ Probed.status = "StatusNotFound" =>
              /\ Len(log) >= 2
              /\ log[2].ev = "CreateIndex"
              /\ Count("CreateIndex") = 1
        /\ (Probed.status = "StatusOK" /\ levelCall.to = LevelIndex) =>
              /\ pc = "done"
              /\ ErrorsIs(result, "ErrIndexAlreadyExists")
              /\ Count("CreateIndex") = 0
              /\ Count("CreateDocuments") = 0
        /\ (Probed.status = "StatusOK" /\ levelCall.to = LevelDocuments) =>
              /\ Count("CreateIndex") = 0
              /\ idxRet = "ok"
              /\ pc \in {"levelDocuments", "done"}
              /\ pc = "done" =>
                    \/ Count("CreateDocuments") = 1
                    \/ MigrationsNotRead /\ Count("CreateDocuments") = 0
        /\ Probed.status \notin {"StatusNotFound", "StatusOK"} =>
              /\ pc = "done"
              /\ ErrorsIs(result, "ErrUnexpectedStatusCode")
              /\ Count("CreateIndex") = 0
              /\ Count("CreateDocuments") = 0

\* MigrateUp(LevelDocuments) found the index, created nothing and issued the
\* bulk insert
C26_Witness ==
    /\ call = "LevelMigrateUp"
    /\ pc = "done"
    /\ levelCall.to = LevelDocuments
    /\ Count("IsIndexExist") = 1
    /\ Probed.status = "StatusOK"
    /\ Count("CreateIndex") = 0
    /\ Count("CreateDocuments") = 1

\* MigrateUp(LevelIndex) found no index and issued create-index
C26_WitnessCreate ==
    /\ call = "LevelMigrateUp"
    /\ pc = "done"
    /\ levelCall.to = LevelIndex
    /\ Count("IsIndexExist") = 1
    /\ Probed.status = "StatusNotFound"
    /\ Count("CreateIndex") = 1
    /\ result.nil

----------------------------------------------------------------------------
\* C27: the level-based MigrateDown at LevelDocuments issues the
\* delete-by-query and nothing else, never the delete-index; at LevelIndex
\* it issues the delete-by-query first and the delete-index after it, and
\* only when the delete-by-query returned no error.
C27_DownLevelsOrdered ==
    call = "LevelMigrateDown" =>
        /\ levelCall.to = LevelDocuments =>
              /\ Count("DeleteIndex") = 0
              /\ pc = "done" =>
                    /\ Len(log) = 1
                    /\ log[1].ev = "DeleteDocuments"
        /\ levelCall.to = LevelIndex =>
              /\ Count("DeleteIndex") > 0 =>
                    /\ Len(log) = 2
                    /\ log[1].ev = "DeleteDocuments"
                    /\ log[2].ev = "DeleteIndex"
                    /\ docRet = "ok"
              /\ pc = "done" =>
                    /\ Count("DeleteDocuments") = 1
                    /\ docRet = "ok" <=> Count("DeleteIndex") = 1

\* MigrateDown(LevelDocuments) has returned after its delete-by-query
C27_Witness ==
    /\ call = "LevelMigrateDown"
    /\ pc = "done"
    /\ levelCall.to = LevelDocuments
    /\ Count("DeleteDocuments") = 1
    /\ result.nil

\* MigrateDown(LevelIndex) has issued both deletes
C27_WitnessIndex ==
    /\ call = "LevelMigrateDown"
    /\ pc = "done"
    /\ levelCall.to = LevelIndex
    /\ Count("DeleteIndex") = 1

----------------------------------------------------------------------------
\* what the engine answered the probe of the guarded MigrateUp
Checked == log[1].reply

\* the index exists and the engine has given its mappings
IndexFound == Checked.kind = "body"

\* C22: the guarded MigrateUp probes the index before it creates it. When
\* the index does not exist, create-index is issued next. When it exists
\* with mappings equal to the desired ones, nothing is created and the call
\* goes on to the documents step. When it exists with other mappings,
\* MigrateUp returns the mappings-don't-match error and issues neither
\* create-index nor bulk insert.
C22_ProbeThenCreateOrCompare ==
    (call = "GuardedMigrateUp" /\ log # <<>>) =>
        /\ log[1].ev = "checkIndex"
        /\ Checked.kind = "error" =>
              /\ Len(log) >= 2
              /\ log[2].ev = "createIndex"
        /\ (IndexFound /\ Checked.live = guarded.config.Definition) =>
              /\ Count("createIndex") = 0
              /\ idxRet = "ok"
              /\ pc \in {"guardedDocuments", "done"}
              /\ (pc = "done" /\ guarded.path # "") => docRet # "none"
        /\ (IndexFound /\ Checked.live # guarded.config.Definition) =>
              /\ pc = "done"
              /\ ErrorsIs(result, "ErrMappingsDontMatch")
              /\ Count("createIndex") = 0
              /\ Count("createDocuments") = 0

\* the same, of the definitions that have a "mappings" object
C22_WithDesiredMappings ==
    guarded.config.Definition \in Mappings => C22_ProbeThenCreateOrCompare

----------------------------------------------------------------------------
\* MigrateDown with MigrateDocuments and MigrateIndex as its operations
RealDown ==
    /\ call = "MigrateDown"
    /\ documentsFn.kind = "MigrateDocuments"
    /\ indexFn.kind = "MigrateIndex"

\* the index of the config does not exist and the engine has answered the
\* delete-by-query as it does for a missing index, with an "error" object
MissingIndexAnswered ==
    /\ t.config.Name \notin esIndices
    /\ \E i \in Pos("DeleteDocuments") : ErrorObject(i)

\* C25: MigrateDown with the operations of the library, on an index that
\* does not exist, returns an error; and once a step of MigrateDown has
\* failed, no further delete is issued: after a failed delete-by-query
\* there is no delete-index.
C25_DownOnMissingIndexFails ==
    RealDown =>
        /\ (MissingIndexAnswered /\ pc = "done") =>
              /\ ~result.nil
              /\ Count("DeleteDocuments") = 1
              /\ Count("DeleteIndex") = 0
        /\ docRet = "err" =>
              /\ Count("DeleteIndex") = 0
              /\ pc = "done"
              /\ ~result.nil

\* MigrateDown has returned the error of the delete-by-query on an index
\* that does not exist
C25_Witness ==
    /\ RealDown
    /\ pc = "done"
    /\ MissingIndexAnswered
    /\ t.config.Name = "idx"
    /\ Mentions(result, "ErrClientDeletingDocuments")

\* the guarded MigrateDown on an index that does not exist: the probe fails
\* and no delete is issued
C25_GuardedDownOnMissingIndex ==
    ( /\ call = "GuardedMigrateDown"
      /\ pc = "done"
      /\ log # <<>>
      /\ log[1].reply.kind = "error" ) =>
        /\ ErrorsIs(result, "ErrIndexDoesntExists")
        /\ Len(log) = 1

----------------------------------------------------------------------------
\* NewAnalyzer or NewNormalizer has been called with a nil producer
NilContainerCall ==
    /\ composed.by \in {"NewAnalyzer", "NewNormalizer"}
    /\ producers[1].nil

\* C23: a nil producer is skipped at the container level too: NewAnalyzer
\* and NewNormalizer called with a nil producer do not crash and return an
\* empty map.
C23_NilContainerSkipped ==
    NilContainerCall =>
        /\ pc # "panicked"
        /\ composed.result = EmptyMap

\* what the code does: the two crash on a nil producer, and only on it,
\* while NewFields and GetMap skip it
C23_NilCrashesContainersOnly ==
    pc = "panicked" <=> NilContainerCall

----------------------------------------------------------------------------
\* C24: nothing synchronizes the accesses to the table: a goroutine that
\* has a field factory or a Generate to run can enter the map whatever the
\* other goroutines are doing, so that a write can take place while another
\* write or the loop of Generate is inside the map.
C24_AccessNeverHeldBack ==
    (pc = "idle") =>
        \A g \in Routines :
            routines[g].at = "idle" =>
                /\ ENABLED BeginStore(g)
                /\ ENABLED BeginRange(g)

\* a field factory writes while the loop of Generate is inside the map
C24_Witness ==
    \E g \in Routines : \E h \in Routines \ {g} :
        /\ routines[g].at = "writing"
        /\ routines[h].at = "iterating"

\* two field factories write at once
C24_WitnessWriteWrite ==
    \E g \in Routines : \E h \in Routines \ {g} :
        /\ routines[g].at = "writing"
        /\ routines[h].at = "writing"

----------------------------------------------------------------------------
\* C28: the body a field, analyzer or normalizer factory builds has "type"
\* equal to the wire name of the kind, also when a supplied option carries a
\* "type" key of its own: the discriminator is written after the options are
\* merged and wins.
C28_TypeAlwaysWins ==
    FactoryCalled =>
        /\ "type" \in DOMAIN built.body
        /\ built.body["type"] = built.kind
        /\ OwnTypeSupplied => built.body["type"] # OwnType.m["type"]

\* a field factory was handed an option with a "type" key of its own
C28_Witness ==
    /\ built.by = "Field"
    /\ OwnTypeSupplied

\* the same for the language analyzer, the custom analyzer and the normalizer
C28_WitnessOthers ==
    /\ built.by \in {"AnalyzerLanguage", "Analyzer", "Normalizer"}
    /\ OwnTypeSupplied
    /\ built.options[Len(built.options)] = OwnType

----------------------------------------------------------------------------
\* the properties map NewFields built from the producers of field factories
PropertiesBuilt == composed.by = "NewFields"

PropertiesNames == DOMAIN composed.result

\* C29: after any sequence of field-factory and NewFields calls, every field
\* name of a properties map built from field-factory producers has an entry
\* in the table, and every document a later Generate synthesizes has a key
\* for each of these names.
C29_PropertiesNamesInTable ==
    PropertiesBuilt =>
        /\ PropertiesNames \subseteq DOMAIN toGenerate
        /\ OriginCalled("Generate") =>
              LET s == Split(originRet.docs.bytes)
              IN  \A i \in DOMAIN s.lines :
                     (i % 2 = 0) =>
                        /\ IsJSONLine(s.lines[i])
                        /\ PropertiesNames \subseteq ObjectKeys(s.lines[i][1])

\* a Generate run has synthesized documents after a properties map was
\* built, and the table holds a name the properties map does not have
C29_Witness ==
    /\ PropertiesBuilt
    /\ PropertiesNames # {}
    /\ OriginCalled("Generate")
    /\ ~originRet.panic
    /\ Len(Split(originRet.docs.bytes).lines) >= 2
    /\ DOMAIN toGenerate \ PropertiesNames # {}

----------------------------------------------------------------------------
\* the calls of the orchestrator and of an origin on its own
OrchestratorCalls == {"MigrateUp", "MigrateDown", "Origin"}

\* every document of a finished Generate has the names of the table as keys
GenerateKeysAreTable ==
    OriginCalled("Generate") =>
        LET s == Split(originRet.docs.bytes)
        IN  \A i \in DOMAIN s.lines :
               (i % 2 = 0) => IsDocumentLine(s.lines[i], DOMAIN toGenerate)

\* C30: no step of MigrateUp, MigrateDown, FromFile or Generate changes the
\* table or the config of the call; only a field factory writes to the table;
\* the documents of a Generate have the key set of the table, so that two
\* Generate calls with no factory call in between give the same key set.
C30_OnlyFactoriesWriteTable ==
    [][/\ (call \in OrchestratorCalls \/ call' \in OrchestratorCalls) =>
              toGenerate' = toGenerate
       /\ (call \in OrchestratorCalls /\ call' = call) =>
              t'.config = t.config
       /\ toGenerate' # toGenerate => built'.by = "Field"
       /\ GenerateKeysAreTable']_vars

\* MigrateUp has run a Generate origin to its end over a table the field
\* factories filled
C30_Witness ==
    /\ call = "MigrateUp"
    /\ Finished
    /\ OriginCalled("Generate")
    /\ docRet = "ok"
    /\ Len(Split(originRet.docs.bytes).lines) >= 2
    /\ declared = FieldNames
    /\ t.config.Name = "idx"

\* MigrateDown has run to its end over such a table
C30_WitnessDown ==
    /\ call = "MigrateDown"
    /\ Finished
    /\ idxRet # "none"
    /\ DOMAIN toGenerate = FieldNames


=============================================================================
